---- MODULE Spec2Model ----
(***************************************************************************)
(* react-native-animation-scenario: the step-machine interpreter of        *)
(* src/src/useAnimationScenario.js (runStep, runAuto, start, stop, reset,  *)
(* nextStep, jumpTo) over programs accepted by compileScenario.            *)
(*                                                                         *)
(* Indices are 0-based as in the source: StepAt(stps, i) is steps[i].      *)
(* JavaScript scheduling is modelled as it is: the synchronous prefix of   *)
(* an async function runs inside the action that calls it, a continuation  *)
(* after `await` is a microtask, the completion of an animation, timer or  *)
(* asynchronous callback is a macrotask, and a control call (start, stop,  *)
(* reset, nextStep) is made by an event handler, which runs only when the  *)
(* microtask queue is empty or from the handler that made the last call.   *)
(***************************************************************************)
EXTENDS Integers, Sequences, FiniteSets, TLC

(* ------------------------------ bounds -------------------------------- *)
\* longest program over the conditional-block alphabet
MaxIfLen == 6
\* longest program over the goto / resume / ifJump alphabet
MaxJumpLen == 4
\* longest body of a program of the control-call specification
MaxCtlLen == 2
\* concurrent invocations (runAuto or nextStep) of one interpreter instance
MaxTasks == 2
\* control calls made to one instance under the control-call specification
MaxCalls == 3
\* longest program of the single-run specification
MaxRunLen == 4
\* longest program over the two-goto alphabet
MaxSlotLen == 5
\* longest program of a run that suspends on a hold
MaxHoldLen == 4
\* longest program with a step that fails at run time
MaxFailLen == 3
\* longest program of moves and parallels with computed values
MaxDriverLen == 2
\* largest absolute value a looping run of relative moves takes a target to
MaxValue == 5
\* longest program of a run that is stopped or reset once
MaxRestartLen == 3
\* longest step list handed to jumpTo
MaxListLen == 5
\* longest scenario of jumps, labels and block uses handed to compileScenario
MaxRefLen == 3
\* longest scenario of ifThen / ifElse / ifEnd handed to compileScenario
MaxBalanceLen == 5
\* longest scenario with errors of several kinds handed to compileScenario
MaxMixLen == 4
\* longest scenario of value and callback steps handed to compileScenario
MaxValueLen == 3
\* longest scenario of malformed entries handed to compileScenario
MaxEntryLen == 2
\* longest scenario handed to compileScenario with a block registry
MaxScenarioLen == 3
\* longest body of the block "P" of a registry
MaxBlockLen == 2

(* ---------------------------- step model ------------------------------ *)
\* the value of an unset ref (callingStepIndexRef = useRef())
Undefined == -1
\* holdResolver.current when no resolver is stored (null or undefined)
NoResolver == 0

LabelNames == {"A", "B"}
Targets == {"x"}
initialValues == [k \in Targets |-> 0]

\* a step object; "" is an absent field
Step(type, label, labelTrue, labelFalse, target) ==
  [type |-> type, label |-> label, labelTrue |-> labelTrue,
   labelFalse |-> labelFalse, target |-> target]

move == Step("move", "", "", "", "x")
set == Step("set", "", "", "", "x")
hold == Step("hold", "", "", "", "")
vibrate == Step("vibrate", "", "", "", "")
resume == Step("resume", "", "", "", "")
stopStep == Step("stop", "", "", "", "")
ifThen == Step("ifThen", "", "", "", "")
ifElse == Step("ifElse", "", "", "", "")
ifEnd == Step("ifEnd", "", "", "", "")
label(l) == Step("label", l, "", "", "")
goto(l) == Step("goto", l, "", "", "")
ifJump(lt, lf) == Step("ifJump", "", lt, lf, "")

\* a `to` of a move or of a sub-target of a parallel: a literal number, the
\* name of a callback that returns value, a function that returns value, or
\* the relative wrappers inc(value) / dec(value)
To(kind, value) == [kind |-> kind, value |-> value]
inc(value) == To("inc", value)
dec(value) == To("dec", value)
\* move(target, to, ...), also the shape of the sub-targets of a parallel
moveOf(target, to) ==
  [type |-> "move", label |-> "", labelTrue |-> "", labelFalse |-> "",
   target |-> target, to |-> to]

\* set(undefined, value): validation finds no target to look up
setNoTarget == Step("set", "", "", "", "")

\* values the model animates or sets a target to
MoveTo == 1
SetValue == 2

\* callback(name): the name is looked up in the callbacks table
callback(name) ==
  [type |-> "callback", label |-> "", labelTrue |-> "", labelFalse |-> "",
   target |-> "", name |-> name]
\* the callbacks table handed to compileScenario: its keys
callbacks == {"f"}
\* parallel(targets): `targets` is the array given; a parallel step written
\* without the field is Step("parallel", ...) (no "targets" in its DOMAIN)
parallel(targets) ==
  [type |-> "parallel", label |-> "", labelTrue |-> "", labelFalse |-> "",
   target |-> "", targets |-> targets]
\* a move on a value that has no initial value, a move without a target
moveY == Step("move", "", "", "", "y")
moveNoTarget == Step("move", "", "", "", "")
delay == Step("delay", "", "", "", "")
\* entries that are not objects: undefined, null, a number; js is the
\* result of String(entry)
undefinedEntry == [js |-> "undefined"]
nullEntry == [js |-> "null"]
numberEntry == [js |-> "5"]
\* !step || typeof step !== "object"
notAnObject(step) == "js" \in DOMAIN step
\* reading a property of the entry throws a TypeError
throwsOnRead(entry) == notAnObject(entry) /\ entry.js \in {"undefined", "null"}

StepAt(stps, i) == stps[i + 1]
Indices(stps) == 0 .. (Len(stps) - 1)
Range(s) == {s[k] : k \in DOMAIN s}
SeqsUpTo(S, n) == UNION {[1 .. k -> S] : k \in 0 .. n}
\* the pushes of a loop, one list of pushes per iteration
RECURSIVE Flat(_)
Flat(ss) == IF ss = <<>> THEN <<>> ELSE Head(ss) \o Flat(Tail(ss))
\* [...new Set(list)]: the first occurrence of every element, in order
RECURSIVE Dedup(_)
Dedup(list) ==
  IF list = <<>> THEN <<>>
  ELSE LET n == Len(list)
           d == Dedup(SubSeq(list, 1, n - 1))
       IN IF list[n] \in Range(d) THEN d ELSE Append(d, list[n])

(* ------------------- compileScenario (flat scenarios) ------------------ *)
\* flatten, label branch: a label step needs a non-empty name, met once
labelErrors(stps) ==
  {[kind |-> "labelName", index |-> i] :
     i \in {k \in Indices(stps) : StepAt(stps, k).type = "label"
                                   /\ StepAt(stps, k).label = ""}}
  \cup
  {[kind |-> "duplicateLabel", index |-> j] :
     j \in {k \in Indices(stps) :
              /\ StepAt(stps, k).type = "label"
              /\ StepAt(stps, k).label # ""
              /\ \E i \in 0 .. (k - 1) :
                   /\ StepAt(stps, i).type = "label"
                   /\ StepAt(stps, i).label = StepAt(stps, k).label}}

\* labels[step.label] = steps.length, for the label steps of the top level
labelsTable(stps) ==
  LET named == {StepAt(stps, i).label :
                  i \in {k \in Indices(stps) : StepAt(stps, k).type = "label"}}
                \ {""}
  IN [n \in named |->
        CHOOSE i \in Indices(stps) :
          /\ StepAt(stps, i).type = "label" /\ StepAt(stps, i).label = n
          /\ \A k \in 0 .. (i - 1) :
               ~(StepAt(stps, k).type = "label" /\ StepAt(stps, k).label = n)]

\* mutant of missingLabel: a name is always taken for a key
missingLabelNever(name, lbls) == <<>>
\* `Missing label : ${name}` unless seenLabels.has(name)
missingLabel(name, lbls) ==
  IF name \in DOMAIN lbls THEN <<>>
  ELSE <<[kind |-> "missingLabel", name |-> name]>>

\* every goto / ifJump label must be a key of labels: the messages pushed,
\* in order
labelRefErrors(stps, lbls) ==
  Flat([k \in DOMAIN stps |->
          LET s == stps[k] IN
            (IF s.type = "goto" THEN missingLabel(s.label, lbls) ELSE <<>>)
            \o (IF s.type = "ifJump"
                  THEN missingLabel(s.labelTrue, lbls) ELSE <<>>)
            \o (IF s.type = "ifJump" /\ s.labelFalse # ""
                  THEN missingLabel(s.labelFalse, lbls) ELSE <<>>)])

\* mutant of unclosedErrors: frames left on the stack are not reported
unclosedErrorsNone(stack) == <<>>
\* stack.forEach(entry => push(`Unclosed "ifThen" at step ${entry.index}`))
unclosedErrors(stack) ==
  [k \in DOMAIN stack |-> [kind |-> "unclosed", index |-> stack[k].index]]

\* the stack scan over ifThen / ifElse / ifEnd, from step i with the open
\* frames: the messages pushed, in order
RECURSIVE ifErrors(_, _, _)
ifErrors(stps, i, stack) ==
  IF i >= Len(stps)
    THEN unclosedErrors(stack)
    ELSE
      LET s == StepAt(stps, i)
          n == Len(stack)
      IN CASE s.type = "ifThen" ->
                ifErrors(stps, i + 1,
                         Append(stack, [index |-> i, hasElse |-> FALSE]))
           [] s.type = "ifElse" ->
                IF n = 0
                  THEN <<[kind |-> "noMatchingIfThen", index |-> i]>>
                         \o ifErrors(stps, i + 1, stack)
                  ELSE IF stack[n].hasElse
                    THEN <<[kind |-> "elseAlreadyDefined", index |-> i]>>
                           \o ifErrors(stps, i + 1, stack)
                    ELSE ifErrors(stps, i + 1,
                                  [stack EXCEPT ![n].hasElse = TRUE])
           [] s.type = "ifEnd" ->
                IF n = 0
                  THEN <<[kind |-> "noMatchingIfThen", index |-> i]>>
                         \o ifErrors(stps, i + 1, stack)
                  ELSE ifErrors(stps, i + 1, SubSeq(stack, 1, n - 1))
           [] OTHER -> ifErrors(stps, i + 1, stack)

\* compileScenario returns (raising mode) iff no validation error was pushed
compiles(stps) ==
  /\ labelErrors(stps) = {}
  /\ labelRefErrors(stps, labelsTable(stps)) = <<>>
  /\ ifErrors(stps, 0, <<>>) = <<>>

(* --------------------- compileScenario (with blocks) ------------------ *)
\* use(block): a reference to a block of the registry
use(block) == [type |-> "use", block |-> block]
\* a step that was inlined from a block
Tagged(step) == "sourceBlock" \in DOMAIN step
\* the registry `blocks = {}`
NoBlocks == [n \in {} |-> <<>>]
NoLabels == [n \in {} |-> 0]

\* what flatten has built so far: steps, labels, labelSet, validationErrors
\* (the messages pushed, in order); overflow: the recursion does not end (a
\* block reaches itself), the call stack is exhausted and a RangeError leaves
\* compileScenario
NoSteps == [steps |-> <<>>, labels |-> NoLabels, labelSet |-> {},
            errors |-> <<>>, overflow |-> FALSE]

\* mutant of isDuplicate: a name is never taken for one met before
isDuplicateNever(labelSet, step) == FALSE
\* labelSet.has(step.label)
isDuplicate(labelSet, step) == step.label \in labelSet

\* mutant of registers: block labels are registered too
registersAlways(sourceBlock) == TRUE
\* a label enters `labels` only at top level: sourceBlock === null
registers(sourceBlock) == sourceBlock = ""

\* mutant of raises: the aggregated failure is never thrown
raisesNever(throughErrors, validationErrors) == FALSE
\* throughErrors && validationErrors.length
raises(throughErrors, validationErrors) ==
  throughErrors /\ validationErrors # <<>>

\* the loop over step.targets of the parallel check, from the k-th entry:
\* it breaks at the first entry that is not a move
RECURSIVE parallelTargetErrors(_, _)
parallelTargetErrors(targets, k) ==
  IF k > Len(targets) THEN <<>>
  ELSE LET t == targets[k] IN
         IF notAnObject(t) \/ t.type # "move"
           THEN <<[kind |-> "parallelMove", name |-> ""]>>
           ELSE (IF t.target = ""
                   THEN <<[kind |-> "parallelTarget", name |-> ""]>>
                   ELSE <<>>)
                \o parallelTargetErrors(targets, k + 1)
\* the parallel check of the compileScenario kept in useAnimationScenario.js
parallelErrors(step) ==
  IF step.type # "parallel" THEN <<>>
  ELSE IF "targets" \notin DOMAIN step
    THEN <<[kind |-> "parallelTargets", name |-> ""]>>
  ELSE parallelTargetErrors(step.targets, 1)

\* mutant of annotate: the tag is not written
annotateNever(step, sourceBlock) == step
\* { ...step, __sourceBlock: sourceBlock }
annotate(step, sourceBlock) ==
  [k \in DOMAIN step \cup {"sourceBlock"} |->
     IF k = "sourceBlock" THEN sourceBlock ELSE step[k]]

\* mutant of exhausts: one nested block exhausts the stack
exhaustsAtOnce(depth, blks) == depth >= 1
\* flatten(block, step.block) called inside `depth` enclosing blocks never
\* returns: deeper than there are blocks, a block is inside itself, flatten
\* takes the same path again at every level and the call stack runs out
exhausts(depth, blks) == depth >= Cardinality(DOMAIN blks)

\* flatten(input, sourceBlock), from the k-th step of input; "" is the null
\* sourceBlock of the top level, depth the number of enclosing blocks;
\* env.blocks is the registry, env.inHook tells the compileScenario of
\* useAnimationScenario.js (with the parallel check) from the one of
\* compileScenario.js (without)
RECURSIVE flattenFrom(_, _, _, _, _, _)
flattenFrom(input, k, sourceBlock, env, acc, depth) ==
  IF acc.overflow \/ k > Len(input)
    THEN acc
    ELSE
      LET step == input[k]
          rest(a) == flattenFrom(input, k + 1, sourceBlock, env, a, depth)
          failed(e) == rest([acc EXCEPT !.errors = Append(@, e)])
      IN IF notAnObject(step)
           THEN failed([kind |-> "invalidStep", name |-> step.js])
         ELSE
         CASE step.type = "use" ->
                IF step.block \notin DOMAIN env.blocks
                  THEN failed([kind |-> "blockNotFound", name |-> step.block])
                ELSE IF exhausts(depth, env.blocks)
                  THEN [acc EXCEPT !.overflow = TRUE]
                ELSE rest(flattenFrom(env.blocks[step.block], 1, step.block,
                                      env, acc, depth + 1))
           [] step.type = "label" /\ step.label = "" ->
                failed([kind |-> "labelName", name |-> ""])
           [] step.type = "label" /\ isDuplicate(acc.labelSet, step) ->
                failed([kind |-> "duplicateLabel", name |-> step.label])
           [] OTHER ->
                LET labelled ==
                      IF step.type = "label"
                        THEN [acc EXCEPT
                               !.labelSet = @ \cup {step.label},
                               !.labels =
                                 IF registers(sourceBlock)
                                   THEN [n \in DOMAIN @ \cup {step.label} |->
                                           IF n = step.label
                                             THEN Len(acc.steps) ELSE @[n]]
                                   ELSE @]
                        ELSE acc
                    checked ==
                      IF step.type = "ifJump" /\ step.labelTrue = ""
                        THEN [labelled EXCEPT !.errors =
                                Append(@, [kind |-> "ifJumpLabelTrue",
                                           name |-> ""])]
                        ELSE labelled
                    parallelChecked ==
                      IF env.inHook
                        THEN [checked EXCEPT
                                !.errors = @ \o parallelErrors(step)]
                        ELSE checked
                    annotated == IF sourceBlock # ""
                                   THEN annotate(step, sourceBlock) ELSE step
                IN rest([parallelChecked EXCEPT
                           !.steps = Append(@, annotated)])

\* mutant of flatten: the registry is not consulted
flattenWithoutBlocks(input, blks) ==
  flattenFrom(input, 1, "", [blocks |-> NoBlocks, inHook |-> FALSE],
              NoSteps, 0)

\* flatten(scenario) of compileScenario.js
flatten(input, blks) ==
  flattenFrom(input, 1, "", [blocks |-> blks, inHook |-> FALSE], NoSteps, 0)
\* flatten(scenario) of the compileScenario kept in useAnimationScenario.js
flattenInHook(input, blks) ==
  flattenFrom(input, 1, "", [blocks |-> blks, inHook |-> TRUE], NoSteps, 0)

\* step.target ? [step.target]
\*   : Array.isArray(step.targets) ? step.targets.map(t => t.target) : []
\* ("" is the undefined read from an entry that has no target)
stepTargets(step) ==
  IF step.target # "" THEN <<step.target>>
  ELSE IF "targets" \in DOMAIN step
    THEN [k \in DOMAIN step.targets |->
            IF notAnObject(step.targets[k]) THEN ""
            ELSE step.targets[k].target]
  ELSE <<>>
\* step.targets.map(t => t.target) reads a property of undefined or null
targetsThrow(step) ==
  /\ step.target = "" /\ "targets" \in DOMAIN step
  /\ \E k \in DOMAIN step.targets : throwsOnRead(step.targets[k])

\* mutant of targetErrors: only the first target of a step is looked up
targetErrorsFirstOnly(step) ==
  LET ts == stepTargets(step)
  IN IF ts # <<>> /\ ts[1] \notin DOMAIN initialValues
       THEN <<[kind |-> "missingTarget", name |-> ts[1]]>> ELSE <<>>
\* every target of a step must have an initial value
targetErrors(step) ==
  LET ts == stepTargets(step)
  IN Flat([k \in DOMAIN ts |->
             IF ts[k] \notin DOMAIN initialValues
               THEN <<[kind |-> "missingTarget", name |-> ts[k]]>>
               ELSE <<>>])
\* every callback step must name a key of callbacks
callbackErrors(step) ==
  IF step.type = "callback" /\ step.name \notin callbacks
    THEN <<[kind |-> "missingCallback", name |-> step.name]>> ELSE <<>>
\* the loop "Validate refs and callbacks"
refErrors(stps) ==
  Flat([k \in DOMAIN stps |-> targetErrors(stps[k]) \o callbackErrors(stps[k])])

\* mutant of collected: validation ends with the first part that reports
collectedUntilFirst(flattenErrors, stps, lbls) ==
  IF flattenErrors # <<>> THEN flattenErrors
  ELSE IF refErrors(stps) # <<>> THEN refErrors(stps)
  ELSE IF labelRefErrors(stps, lbls) # <<>> THEN labelRefErrors(stps, lbls)
  ELSE ifErrors(stps, 0, <<>>)
\* validationErrors when the four parts of compileScenario have run
collected(flattenErrors, stps, lbls) ==
  flattenErrors \o refErrors(stps) \o labelRefErrors(stps, lbls)
                \o ifErrors(stps, 0, <<>>)

\* compileScenario after flatten(scenario) gave f: what the call gives,
\* status "returned" (with its result; validationErrors is the array
\* returned), "raised" (the aggregated validation failure; validationErrors
\* is the list of messages it carries), "typeError" or "rangeError"
compileFrom(f, throughErrors) ==
  LET validationErrors == collected(f.errors, f.steps, f.labels)
      none == [status |-> "none", steps |-> <<>>, labels |-> NoLabels,
               validationErrors |-> <<>>, throughErrors |-> throughErrors]
  IN IF f.overflow
       THEN [none EXCEPT !.status = "rangeError"]
     ELSE IF \E k \in DOMAIN f.steps : targetsThrow(f.steps[k])
       THEN [none EXCEPT !.status = "typeError"]
     ELSE IF raises(throughErrors, validationErrors)
       THEN [none EXCEPT !.status = "raised",
                         !.validationErrors = Dedup(validationErrors)]
     ELSE [none EXCEPT !.status = "returned", !.steps = f.steps,
                       !.labels = f.labels,
                       !.validationErrors = validationErrors]

\* compileScenario(scenario, { blocks, callbacks, initialValues },
\* throughErrors) of compileScenario.js
compileScenario(scn, blks, throughErrors) ==
  compileFrom(flatten(scn, blks), throughErrors)
\* the compileScenario kept in useAnimationScenario.js
compileScenarioInHook(scn, blks, throughErrors) ==
  compileFrom(flattenInHook(scn, blks), throughErrors)
\* no call made yet
NotCompiled ==
  [status |-> "none", steps |-> <<>>, labels |-> NoLabels,
   validationErrors |-> <<>>, throughErrors |-> TRUE]

(* ------------------------------ jumpTo -------------------------------- *)
\* the for loop of jumpTo, at index i with the current depth
RECURSIVE jumpToFrom(_, _, _, _, _)
jumpToFrom(stps, i, depth, startType, endTypes) ==
  IF i >= Len(stps)
    THEN Len(stps)
    ELSE
      LET s == StepAt(stps, i) IN
        IF s.type = startType
          THEN jumpToFrom(stps, i + 1, depth + 1, startType, endTypes)
        ELSE IF s.type = endTypes[Len(endTypes)] /\ depth > 0
          THEN jumpToFrom(stps, i + 1, depth - 1, startType, endTypes)
        ELSE IF s.type \in Range(endTypes) /\ depth = 0
          THEN i + 1
        ELSE jumpToFrom(stps, i + 1, depth, startType, endTypes)

\* mutant of jumpTo: returns the index of the closing step, not the next one
jumpToOnClosing(stps, startIndex, startType, endTypes) ==
  LET j == jumpToFrom(stps, startIndex + 1, 0, startType, endTypes)
  IN IF j > startIndex + 1 THEN j - 1 ELSE j

\* mutant of jumpTo: stops at the first closing step, whatever its depth
jumpToFirstClosing(stps, startIndex, startType, endTypes) ==
  LET closing == {k \in Indices(stps) :
                    k > startIndex /\ StepAt(stps, k).type \in Range(endTypes)}
  IN IF closing = {} THEN Len(stps)
     ELSE 1 + CHOOSE k \in closing : \A m \in closing : k <= m

jumpTo(stps, startIndex, startType, endTypes) ==
  jumpToFrom(stps, startIndex + 1, 0, startType, endTypes)

(* ------------------------------ programs ------------------------------ *)
IfAlphabet == {move, ifThen, ifElse, ifEnd}
JumpAlphabet == {move, resume, label("A"), goto("A"), ifJump("A", ""),
                 label("B"), ifJump("A", "B")}
CtlAlphabet == {move, hold, vibrate, goto("A")}

IfPrograms == {p \in SeqsUpTo(IfAlphabet, MaxIfLen) : Len(p) > 0 /\ compiles(p)}
JumpPrograms ==
  {p \in SeqsUpTo(JumpAlphabet, MaxJumpLen) : Len(p) > 0 /\ compiles(p)}
\* a label step followed by a body; the body's goto steps jump back to it
CtlPrograms ==
  {<<label("A")>> \o b : b \in SeqsUpTo(CtlAlphabet, MaxCtlLen) \ {<<>>}}

\* programs of a single auto-mode run, and the scenario of the test
\* "step3.0 - goto jumps to labeled step"
RunAlphabet == {move, vibrate, label("A"), goto("A"), stopStep}
RunPrograms ==
  {p \in SeqsUpTo(RunAlphabet, MaxRunLen) : Len(p) > 0 /\ compiles(p)}
loopScenario == <<label("start"), move, goto("start")>>

\* programs in which one goto can execute after another before a resume
SlotAlphabet == {move, resume, label("A"), label("B"), goto("A"), goto("B")}
SlotPrograms ==
  {p \in SeqsUpTo(SlotAlphabet, MaxSlotLen) : Len(p) > 0 /\ compiles(p)}

\* scenarios and registries handed to compileScenario: block "P" with any
\* body, block "Q" (used from "P") absent or with one step
BlockNames == {"P", "Q"}
ScenarioAlphabet == {move, label("A"), label("B"), label(""), use("P")}
BlockAlphabet == {move, label("A"), use("P"), use("Q")}
Scenarios == SeqsUpTo(ScenarioAlphabet, MaxScenarioLen)
Registries ==
  LET PBodies == SeqsUpTo(BlockAlphabet, MaxBlockLen)
      QBodies == {<<move>>, <<label("A")>>, <<use("P")>>}
  IN {[n \in {"P"} |-> p] : p \in PBodies}
       \cup {[n \in BlockNames |-> IF n = "P" THEN b[1] ELSE b[2]] :
               b \in PBodies \X QBodies}

\* programs of a run that suspends on a hold, with labels before and after it
HoldAlphabet == {move, hold, label("A"), label("B")}
HoldPrograms ==
  {p \in SeqsUpTo(HoldAlphabet, MaxHoldLen) :
     compiles(p) /\ \E i \in 1 .. Len(p) : p[i] = hold}

\* validated programs with a step that throws when it runs
FailAlphabet == {move, set, setNoTarget, label("A"), goto("A")}
FailPrograms ==
  {p \in SeqsUpTo(FailAlphabet, MaxFailLen) : Len(p) > 0 /\ compiles(p)}

\* programs of moves and parallels whose `to` is a literal, a callback name,
\* a function or a relative value
DriverAlphabet ==
  {moveOf("x", To("number", 2)), moveOf("x", inc(1)),
   moveOf("x", To("function", 3)),
   parallel(<<moveOf("x", To("number", 2))>>),
   parallel(<<moveOf("x", inc(1))>>),
   parallel(<<moveOf("x", To("name", 3)), moveOf("x", dec(1))>>)}
DriverPrograms == SeqsUpTo(DriverAlphabet, MaxDriverLen) \ {<<>>}

\* a label step followed by a body of moves and stop steps
StopPrograms ==
  {<<label("A")>> \o b : b \in SeqsUpTo({move, stopStep}, MaxCtlLen) \ {<<>>}}

\* programs of moves, vibrations and stop steps
RestartPrograms ==
  SeqsUpTo({move, vibrate, stopStep}, MaxRestartLen) \ {<<>>}

\* step lists handed to jumpTo, balanced or not
JumpToLists == SeqsUpTo(IfAlphabet, MaxListLen) \ {<<>>}

\* inputs of compileScenario, each a scenario with its block registry:
\* jumps and labels, the block holding a label and a goto to it
RefAlphabet == {label("A"), label("B"), goto("A"), goto("B"), goto(""),
                ifJump("A", "B"), ifJump("B", ""), ifJump("", "A"), use("P")}
RefBlocks == [n \in {"P"} |-> <<label("B"), goto("B")>>]
RefInputs == SeqsUpTo(RefAlphabet, MaxRefLen) \X {RefBlocks}
\* conditional blocks, balanced or not
BalanceInputs == SeqsUpTo(IfAlphabet, MaxBalanceLen) \X {NoBlocks}
\* errors of every part of the validation; block "Q" is not in the registry
MixAlphabet == {moveY, goto("A"), label("A"), label(""), ifThen, ifEnd,
                use("P"), use("Q")}
MixBlocks == [n \in {"P"} |-> <<moveY, label("A")>>]
MixInputs == SeqsUpTo(MixAlphabet, MaxMixLen) \X {MixBlocks}
\* value targets and callbacks, present ("x", "f") or not ("y", "g")
ValueAlphabet == {move, moveY, callback("f"), callback("g"),
                  parallel(<<move, moveY>>), parallel(<<moveY, moveY>>),
                  use("P")}
ValueBlocks == [n \in {"P"} |-> <<moveY, callback("g"), parallel(<<moveY>>)>>]
ValueInputs == SeqsUpTo(ValueAlphabet, MaxValueLen) \X {ValueBlocks}
\* entries that are not steps, steps with missing fields, parallel steps
\* without targets, with none, with entries that are not moves
EntryAlphabet == {move, undefinedEntry, nullEntry, numberEntry, label(""),
                  moveNoTarget, goto(""), Step("parallel", "", "", "", ""),
                  parallel(<<>>), parallel(<<undefinedEntry>>),
                  parallel(<<numberEntry>>), parallel(<<delay>>),
                  parallel(<<moveNoTarget>>), parallel(<<move>>),
                  parallel(<<move, nullEntry>>), use("P"), use("Q")}
EntryBlocks == [n \in {"P"} |-> <<parallel(<<>>), nullEntry>>]
EntryInputs == SeqsUpTo(EntryAlphabet, MaxEntryLen) \X {EntryBlocks}

(* ------------------------------- state -------------------------------- *)
VARIABLES
  scenario,             \* the scenario handed to compileScenario
  blocks,               \* the block registry handed to compileScenario
  compiled,             \* what the compileScenario call gave
  steps,                \* compiled program (compileScenario's steps)
  labels,               \* compiled label table: name -> index
  mode,                 \* "auto" | "manual"
  loop,                 \* hook option loop
  vibrationMode,        \* "once" | "always"
  stepIndexRef,         \* the cursor
  callingStepIndexRef,  \* the single-slot return address (Undefined if empty)
  vibrationTriggered,
  holdResolver,         \* the task whose hold promise the stored resolver resolves
  shouldStop,
  currentStepIndex,     \* React state shown by the timeline
  animatedRefs,         \* target -> value
  tasks,                \* the pending invocations of runAuto / nextStep
  handler,              \* an event handler has made a call and not yet returned
  lastOp,               \* history: the last action was "init", a "call" or a "task" step
  lastCall,             \* history: the last control call made and how it ended
  lastLabel,            \* history: the label handed to the last control call,
                        \* "" if it was not nextStep(label)
  lastGoto,             \* history: index of the last goto step executed
  prevGoto,             \* history: the goto whose return address the last goto
                        \* overwrote (-1: the slot was empty)
  hapticFired,          \* history: the haptic fired since the run began
  calls                 \* history: control calls made so far (saturating)

config == <<scenario, blocks, compiled, steps, labels, mode, loop,
            vibrationMode>>
refs == <<stepIndexRef, callingStepIndexRef, vibrationTriggered, holdResolver,
          shouldStop, currentStepIndex, animatedRefs, lastGoto, prevGoto,
          hapticFired>>
vars == <<scenario, blocks, compiled, steps, labels, mode, loop, vibrationMode,
          stepIndexRef, callingStepIndexRef, vibrationTriggered, holdResolver,
          shouldStop, currentStepIndex, animatedRefs, tasks, handler, lastOp,
          lastCall, lastLabel, lastGoto, prevGoto, hapticFired, calls>>

TaskIds == 1 .. MaxTasks

\* history of the step a task executed last: its index, the condition result
\* it resolved, the return address a resume consumed (with the goto that
\* stored it), the index it jumped to, and the batch of (target, toValue) it
\* handed to Animated.timing
NoExec == [idx |-> -1, cond |-> "none", ret |-> Undefined, g |-> -1, to |-> -1,
           driven |-> <<>>]
Exec(i) == [NoExec EXCEPT !.idx = i]

\* pc: idle | head (at the while test of run) | inflight (inside runStep, at an
\* await) | post (runStep returned, the caller's continuation is queued) |
\* held | restart (run returned, the loop's continuation is queued) | done | failed
IdleTask == [kind |-> "none", pc |-> "idle", index |-> -1, result |-> "none",
             micro |-> FALSE, cur |-> NoExec]
\* a task that returned ("done") or threw ("failed"): its slot is free again
Finished(kind, pc) == [IdleTask EXCEPT !.kind = kind, !.pc = pc]
\* mutant of Settle: the error is swallowed and the caller goes on
SettleContinuing(tk) == IF tk.pc = "failed" THEN [tk EXCEPT !.pc = "post"] ELSE tk
\* the task record after a part of runStep: a throw ends the invocation
Settle(tk) == IF tk.pc = "failed" THEN Finished(tk.kind, "failed") ELSE tk

\* the refs as one record, with the cursor at base
Refs(base) ==
  [stepIndexRef |-> base, callingStepIndexRef |-> callingStepIndexRef,
   vibrationTriggered |-> vibrationTriggered, holdResolver |-> holdResolver,
   shouldStop |-> shouldStop, currentStepIndex |-> currentStepIndex,
   animatedRefs |-> animatedRefs, lastGoto |-> lastGoto,
   prevGoto |-> prevGoto, hapticFired |-> hapticFired]

Assign(r) ==
  /\ stepIndexRef' = r.stepIndexRef
  /\ callingStepIndexRef' = r.callingStepIndexRef
  /\ vibrationTriggered' = r.vibrationTriggered
  /\ holdResolver' = r.holdResolver
  /\ shouldStop' = r.shouldStop
  /\ currentStepIndex' = r.currentStepIndex
  /\ animatedRefs' = r.animatedRefs
  /\ lastGoto' = r.lastGoto
  /\ prevGoto' = r.prevGoto
  /\ hapticFired' = r.hapticFired

(* ------------------------------ scheduling ---------------------------- *)
\* a task that is running synchronously (no await reached yet)
Busy == \E t \in TaskIds : tasks[t].pc = "head"
\* a task whose continuation is in the microtask queue
MicroPending(t) ==
  \/ tasks[t].pc \in {"post", "restart"}
  \/ tasks[t].pc = "inflight" /\ tasks[t].micro
\* an event handler may call start / stop / reset / nextStep
CallEnabled == ~Busy /\ (handler \/ ~\E t \in TaskIds : MicroPending(t))
\* a timer, animation end or asynchronous callback may complete
MacroEnabled == ~Busy /\ ~\E t \in TaskIds : MicroPending(t)

FreeTask(t) == tasks[t].pc \in {"idle", "done", "failed"}
\* the slot a new invocation takes: the lowest free one
NewTask == CHOOSE t \in TaskIds : FreeTask(t) /\ \A u \in 1 .. (t - 1) : ~FreeTask(u)
HasFreeTask == \E t \in TaskIds : FreeTask(t)

(* ------------------------------ runStep ------------------------------- *)
\* what evalStepCondition can return: true, a truthy value that is not a
\* boolean (1), false, a falsy value that is defined (null), and undefined
\* (the function returned nothing, or the string names no callback)
Conds == {"true", "1", "false", "null", "undef"}
\* `result ? ... : ...` and `!result`: the coercion to a boolean
truthy(cond) == cond \in {"true", "1"}

\* evalStepValue(stepValue): a callback name or a function is called, any
\* other value is returned as it is
evalStepValue(stepValue) ==
  IF stepValue.kind \in {"name", "function"}
    THEN To("number", stepValue.value) ELSE stepValue
\* move: toValue, the evaluated `to` with inc / dec applied to the live value
toValue(to, live) ==
  LET result == evalStepValue(to)
  IN IF result.kind = "inc" THEN To("number", live + result.value)
     ELSE IF result.kind = "dec" THEN To("number", live - result.value)
     ELSE result
\* the `to` of a step or sub-target (written without one: the literal MoveTo)
ToOf(entry) == IF "to" \in DOMAIN entry THEN entry.to ELSE To("number", MoveTo)
\* the values after Animated has run a batch: each target ends at the last
\* numeric toValue handed for it; what Animated makes of a toValue that is
\* not a number is not decided here, the value is left as it was
AfterBatch(values, batch) ==
  [x \in DOMAIN values |->
     LET ks == {k \in DOMAIN batch :
                  batch[k].target = x /\ batch[k].toValue.kind = "number"}
     IN IF ks = {} THEN values[x]
        ELSE batch[CHOOSE k \in ks : \A m \in ks : m <= k].toValue.value]

\* goto: callingStepIndexRef.current = index
gotoReturnAddress(index) == index

\* mutant of ifJumpTargetLabel: the two labels exchanged
ifJumpTargetLabelSwapped(s, cond) ==
  IF cond = "undef" THEN ""
  ELSE IF truthy(cond) THEN s.labelFalse ELSE s.labelTrue

\* ifJump: the label chosen for a condition result ("" if none)
ifJumpTargetLabel(s, cond) ==
  IF cond = "undef" THEN ""
  ELSE IF truthy(cond) THEN s.labelTrue ELSE s.labelFalse

\* mutant of ifThenSkips: undefined is taken for false
ifThenSkipsUndefined(cond) == ~truthy(cond)
\* ifThen: the jump is taken when the result is defined and falsy
ifThenSkips(cond) == cond # "undef" /\ ~truthy(cond)

\* an outcome of a part of runStep: the refs it leaves, where the task is
\* next, what runStep returns, and the history record of the step
Outcome(r, pc, i) ==
  [refs |-> r, pc |-> pc, result |-> "none", micro |-> FALSE, ex |-> Exec(i)]

\* runStep(step, index) up to its first await or its return, run by task t with
\* the cursor at base: the set of outcomes
runStep(t, i, base) ==
  LET s == StepAt(steps, i)
      r0 == Outcome([Refs(base) EXCEPT !.currentStepIndex = i], "post", i)
      awaiting == [r0 EXCEPT !.pc = "inflight"]
  IN CASE s.type \in {"move", "timing"} ->
            \* a `to` that is written out is first evaluated (await
            \* evalStepValue), by a microtask unless its function is async
            IF "to" \in DOMAIN s
              THEN {[awaiting EXCEPT !.micro = m] :
                      m \in IF s.to.kind \in {"name", "function"}
                              THEN BOOLEAN ELSE {TRUE}}
              ELSE {awaiting}
       [] s.type = "parallel" ->
            \* toValue: t.to, handed over as written
            {[awaiting EXCEPT !.ex.driven =
                [k \in DOMAIN s.targets |->
                   [target |-> s.targets[k].target,
                    toValue |-> ToOf(s.targets[k])]]]}
       [] s.type = "delay" -> {awaiting}
       [] s.type \in {"set", "ifJump", "ifThen"} ->
            \* await evalStepValue / evalStepCondition: resolved by a
            \* microtask (literal, synchronous function) or later (async)
            {[awaiting EXCEPT !.micro = m] : m \in BOOLEAN}
       [] s.type = "vibrate" ->
            IF (vibrationMode = "once" /\ ~vibrationTriggered)
                 \/ vibrationMode = "always"
              THEN {[awaiting EXCEPT !.refs.hapticFired = TRUE]} ELSE {r0}
       [] s.type = "hold" ->
            {[r0 EXCEPT !.pc = "held", !.refs.holdResolver = t]}
       [] s.type = "goto" ->
            IF s.label \notin DOMAIN labels
              THEN {[r0 EXCEPT !.pc = "failed"]}
              ELSE {[r0 EXCEPT !.refs.callingStepIndexRef = gotoReturnAddress(i),
                               !.refs.stepIndexRef = labels[s.label],
                               !.refs.lastGoto = i,
                               !.refs.prevGoto =
                                 IF callingStepIndexRef # Undefined
                                   THEN lastGoto ELSE -1,
                               !.result = "jumped",
                               !.ex.to = labels[s.label]]}
       [] s.type = "resume" ->
            IF callingStepIndexRef # Undefined
              THEN {[r0 EXCEPT !.refs.stepIndexRef = callingStepIndexRef,
                               !.refs.callingStepIndexRef = Undefined,
                               !.result = "jumped",
                               !.ex.ret = callingStepIndexRef,
                               !.ex.g = lastGoto,
                               !.ex.to = callingStepIndexRef]}
              ELSE {r0}
       [] s.type = "stop" -> {[r0 EXCEPT !.refs.shouldStop = TRUE]}
       [] s.type = "ifElse" ->
            LET j == jumpTo(steps, i, "ifThen", <<"ifEnd">>)
            IN {[r0 EXCEPT !.refs.stepIndexRef = j, !.result = "jumped",
                           !.ex.to = j]}
       [] OTHER -> {r0}   \* label, ifEnd, comment, unknown type

\* runStep after its await, for the step task t has in flight
runStepLate(t) ==
  LET i == tasks[t].index
      s == StepAt(steps, i)
      r0 == [Outcome(Refs(stepIndexRef), "post", i) EXCEPT !.ex = tasks[t].cur]
  IN CASE s.type \in {"move", "timing"} ->
            IF "to" \in DOMAIN s /\ tasks[t].cur.driven = <<>>
              THEN \* evalStepValue has resolved: toValue is computed from
                   \* the live value and handed to Animated.timing
                   {[r0 EXCEPT !.pc = "inflight",
                               !.ex.driven =
                                 <<[target |-> s.target,
                                    toValue |-> toValue(s.to, animatedRefs[s.target])]>>]}
              ELSE \* the animation resolves at toValue, or superseded before it
                   {[r0 EXCEPT !.refs.animatedRefs[s.target] = v] :
                      v \in {IF "to" \in DOMAIN s
                               THEN tasks[t].cur.driven[1].toValue.value
                               ELSE MoveTo,
                             animatedRefs[s.target]}}
       [] s.type = "parallel" ->
            {[r0 EXCEPT !.refs.animatedRefs =
                          AfterBatch(animatedRefs, tasks[t].cur.driven)]}
       [] s.type = "set" ->
            IF s.target \notin DOMAIN animatedRefs
              THEN {[r0 EXCEPT !.pc = "failed"]}
              ELSE {[r0 EXCEPT !.refs.animatedRefs[s.target] = SetValue]}
       [] s.type = "vibrate" ->
            IF vibrationMode = "once"
              THEN {[r0 EXCEPT !.refs.vibrationTriggered = TRUE]} ELSE {r0}
       [] s.type = "ifJump" ->
            {LET l == ifJumpTargetLabel(s, c)
                 rc == [r0 EXCEPT !.ex.cond = c]
             IN IF l = "" THEN rc
                ELSE IF l \notin DOMAIN labels THEN [rc EXCEPT !.pc = "failed"]
                ELSE [rc EXCEPT !.refs.stepIndexRef = labels[l],
                                !.result = "jumped", !.ex.to = labels[l]]
             : c \in Conds}
       [] s.type = "ifThen" ->
            {LET rc == [r0 EXCEPT !.ex.cond = c]
                 j == jumpTo(steps, i, "ifThen", <<"ifElse", "ifEnd">>)
             IN IF ifThenSkips(c)
                  THEN [rc EXCEPT !.refs.stepIndexRef = j,
                                  !.result = "jumped", !.ex.to = j]
                  ELSE rc
             : c \in Conds}
       [] OTHER -> {r0}

\* the task record once it has begun step i with outcome r
BeginTask(tk, i, r) ==
  Settle([kind |-> tk.kind, pc |-> r.pc, index |-> i, result |-> r.result,
          micro |-> r.micro, cur |-> r.ex])

\* the handler flag is kept only while some continuation could be overtaken
Handler(h, tks) ==
  h /\ \E t \in TaskIds :
         \/ tks[t].pc \in {"head", "post", "restart"}
         \/ tks[t].pc = "inflight" /\ tks[t].micro

(* ------------------------------- runAuto ------------------------------ *)
\* mutant of runInit: vibrationTriggered is not cleared
runInitKeepingVibration ==
  [Refs(0) EXCEPT !.callingStepIndexRef = Undefined,
                  !.prevGoto = -1, !.hapticFired = FALSE]

\* run(): the three assignments before the while loop
runInit ==
  [Refs(0) EXCEPT !.vibrationTriggered = FALSE,
                  !.callingStepIndexRef = Undefined,
                  !.prevGoto = -1, !.hapticFired = FALSE]

\* mutant of autoAdvance: a step that did not jump advances by two
autoAdvanceSkipping(result, cursor) ==
  IF result = "jumped" THEN cursor ELSE cursor + 2
\* mutant of autoAdvance: the cursor is incremented after a jump too
autoAdvanceAlways(result, cursor) == cursor + 1

\* the cursor after a step of the while loop returned `result`
autoAdvance(result, cursor) == IF result = "jumped" THEN cursor ELSE cursor + 1

\* mutant of runReturns: runAuto ends after one run
runReturnsOnce(tk) == Finished("auto", "done")

\* where an auto task goes when run() returns
runReturns(tk) ==
  IF loop THEN [tk EXCEPT !.pc = "restart"] ELSE Finished("auto", "done")

\* start(): runAuto() unless the mode is manual; runAuto lowers the stop flag
\* and calls run(), which runs synchronously up to the while test
start ==
  /\ CallEnabled
  /\ IF mode # "manual"
       THEN /\ HasFreeTask
            /\ Assign([runInit EXCEPT !.shouldStop = FALSE])
            /\ tasks' = [tasks EXCEPT ![NewTask] =
                           [IdleTask EXCEPT !.kind = "auto", !.pc = "head"]]
       ELSE UNCHANGED <<refs, tasks>>
  /\ lastOp' = "call"
  /\ calls' = IF calls < MaxCalls THEN calls + 1 ELSE calls
  /\ lastCall' = "start"
  /\ lastLabel' = ""
  /\ handler' = TRUE
  /\ UNCHANGED config

\* the while test of run() and, when it passes, runStep up to its first await
autoHead(t) ==
  /\ tasks[t].kind = "auto" /\ tasks[t].pc = "head"
  /\ IF stepIndexRef < Len(steps) /\ ~shouldStop
       THEN \E r \in runStep(t, stepIndexRef, stepIndexRef) :
              /\ Assign(r.refs)
              /\ tasks' = [tasks EXCEPT ![t] = BeginTask(tasks[t], stepIndexRef, r)]
       ELSE /\ UNCHANGED refs
            /\ tasks' = [tasks EXCEPT ![t] = runReturns(tasks[t])]
  /\ lastOp' = "task"
  /\ calls' = calls
  /\ handler' = Handler(handler, tasks')
  /\ UNCHANGED <<config, lastCall, lastLabel>>

\* the rest of runStep when its await resolves
complete(t) ==
  /\ tasks[t].pc = "inflight"
  /\ ~Busy
  /\ tasks[t].micro \/ MacroEnabled
  /\ \E r \in runStepLate(t) :
       /\ Assign(r.refs)
       /\ tasks' = [tasks EXCEPT ![t] =
                      Settle([tasks[t] EXCEPT !.pc = r.pc, !.result = r.result,
                                              !.micro = FALSE, !.cur = r.ex])]
  /\ lastOp' = "task"
  /\ calls' = calls
  /\ handler' = FALSE
  /\ UNCHANGED <<config, lastCall, lastLabel>>

\* run(): after `await runStep(...)`
autoPost(t) ==
  /\ tasks[t].kind = "auto" /\ tasks[t].pc = "post"
  /\ ~Busy
  /\ IF shouldStop
       THEN /\ UNCHANGED refs
            /\ tasks' = [tasks EXCEPT ![t] = runReturns(tasks[t])]
       ELSE /\ Assign(Refs(autoAdvance(tasks[t].result, stepIndexRef)))
            /\ tasks' = [tasks EXCEPT ![t].pc = "head"]
  /\ lastOp' = "task"
  /\ calls' = calls
  /\ handler' = FALSE
  /\ UNCHANGED <<config, lastCall, lastLabel>>

\* runAuto: `while (!shouldStop.current) await run()`, after run() returned
autoRestart(t) ==
  /\ tasks[t].kind = "auto" /\ tasks[t].pc = "restart"
  /\ ~Busy
  /\ IF ~shouldStop
       THEN /\ Assign(runInit)
            /\ tasks' = [tasks EXCEPT ![t].pc = "head", ![t].cur = NoExec]
       ELSE /\ UNCHANGED refs
            /\ tasks' = [tasks EXCEPT ![t] = Finished("auto", "done")]
  /\ lastOp' = "task"
  /\ calls' = calls
  /\ handler' = FALSE
  /\ UNCHANGED <<config, lastCall, lastLabel>>

(* --------------------------- stop and reset --------------------------- *)
\* mutant of resetRefs: the cursor is left where it is
resetRefsKeepingCursor ==
  [stepIndexRef |-> stepIndexRef, callingStepIndexRef |-> Undefined,
   vibrationTriggered |-> FALSE, holdResolver |-> NoResolver,
   shouldStop |-> FALSE, currentStepIndex |-> -1,
   animatedRefs |-> [k \in DOMAIN animatedRefs |->
                       IF k \in DOMAIN initialValues
                         THEN initialValues[k] ELSE animatedRefs[k]],
   lastGoto |-> lastGoto, prevGoto |-> -1, hapticFired |-> FALSE]

\* the refs as reset() leaves them
resetRefs ==
  [stepIndexRef |-> 0, callingStepIndexRef |-> Undefined,
   vibrationTriggered |-> FALSE, holdResolver |-> NoResolver,
   shouldStop |-> FALSE, currentStepIndex |-> -1,
   animatedRefs |-> [k \in DOMAIN animatedRefs |->
                       IF k \in DOMAIN initialValues
                         THEN initialValues[k] ELSE animatedRefs[k]],
   lastGoto |-> lastGoto, prevGoto |-> -1, hapticFired |-> FALSE]

\* mutant of reset: resolves the pending hold before dropping the resolver
resetResolvingHold ==
  [refs |-> resetRefs,
   tasks |-> IF holdResolver # NoResolver
               THEN [tasks EXCEPT ![holdResolver].pc = "post"] ELSE tasks]

\* mutant of reset: leaves holdResolver as it is
resetKeepingResolver ==
  [refs |-> [resetRefs EXCEPT !.holdResolver = holdResolver], tasks |-> tasks]

\* reset(): writes the refs; the pending invocations are not touched
reset == [refs |-> resetRefs, tasks |-> tasks]

\* mutant of stop: the flag is not raised after the reset
stopWithoutFlag == reset

\* mutant of stop: raises the flag without resetting
stopWithoutReset ==
  [refs |-> [Refs(stepIndexRef) EXCEPT !.shouldStop = TRUE], tasks |-> tasks]

\* mutant of stop: the pending hold is resolved before the resolver is dropped
stopResolvingHold ==
  [refs |-> [resetRefs EXCEPT !.shouldStop = TRUE],
   tasks |-> IF holdResolver # NoResolver
               THEN [tasks EXCEPT ![holdResolver].pc = "post"] ELSE tasks]

\* stop(): reset(), then shouldStop.current = true
stop == [reset EXCEPT !.refs.shouldStop = TRUE]

Reset ==
  /\ CallEnabled
  /\ Assign(reset.refs)
  /\ tasks' = reset.tasks
  /\ lastOp' = "call"
  /\ calls' = IF calls < MaxCalls THEN calls + 1 ELSE calls
  /\ lastCall' = "reset"
  /\ lastLabel' = ""
  /\ handler' = TRUE
  /\ UNCHANGED config

Stop ==
  /\ CallEnabled
  /\ Assign(stop.refs)
  /\ tasks' = stop.tasks
  /\ lastOp' = "call"
  /\ calls' = IF calls < MaxCalls THEN calls + 1 ELSE calls
  /\ lastCall' = "stop"
  /\ lastLabel' = ""
  /\ handler' = TRUE
  /\ UNCHANGED config

(* ------------------------------ nextStep ------------------------------ *)
\* mutant of manualAdvance: no wrap to 0
manualAdvanceNoWrap(result, cursor) == cursor + 1

\* the cursor after nextStep's step returned
manualAdvance(result, cursor) ==
  IF cursor + 1 >= Len(steps) THEN 0 ELSE cursor + 1

\* mutant of nextStepRun: the stop flag is not consulted
nextStepRunRegardless(base) ==
  IF base >= Len(steps)
    THEN /\ Assign(Refs(base))
         /\ UNCHANGED tasks
         /\ lastCall' = "nextStepReturn"
    ELSE /\ HasFreeTask
         /\ \E r \in runStep(NewTask, base, base) :
              /\ Assign(r.refs)
              /\ tasks' = [tasks EXCEPT ![NewTask] =
                   BeginTask([IdleTask EXCEPT !.kind = "manual"], base, r)]
         /\ lastCall' = "nextStep"

\* nextStep with the cursor at base and no hold pending: run the step there
nextStepRun(base) ==
  IF base >= Len(steps) \/ shouldStop
    THEN \* `if (!step) return; if (shouldStop.current) return;`
         /\ Assign(Refs(base))
         /\ UNCHANGED tasks
         /\ lastCall' = "nextStepReturn"
    ELSE /\ HasFreeTask
         /\ \E r \in runStep(NewTask, base, base) :
              /\ Assign(r.refs)
              /\ tasks' = [tasks EXCEPT ![NewTask] =
                   BeginTask([IdleTask EXCEPT !.kind = "manual"], base, r)]
         /\ lastCall' = "nextStep"

\* mutant of nextStepResume: the cursor is not set to the label
nextStepResumeInPlace(base) ==
  /\ Assign([Refs(stepIndexRef) EXCEPT !.holdResolver = NoResolver])
  /\ tasks' = [tasks EXCEPT ![holdResolver].pc = "post"]
  /\ lastCall' = "nextStepRelease"

\* mutant of nextStepResume: no return after resolving the hold
nextStepResumeAndRun(base) ==
  /\ base < Len(steps) /\ HasFreeTask
  /\ \E r \in runStep(NewTask, base, base) :
       /\ Assign([r.refs EXCEPT !.holdResolver = NoResolver])
       /\ tasks' = [tasks EXCEPT
            ![holdResolver].pc = "post",
            ![NewTask] = BeginTask([IdleTask EXCEPT !.kind = "manual"], base, r)]
  /\ lastCall' = "nextStepRelease"

\* nextStep with a hold pending: clear the slot, resolve the hold, return
nextStepResume(base) ==
  /\ Assign([Refs(base) EXCEPT !.holdResolver = NoResolver])
  /\ tasks' = [tasks EXCEPT ![holdResolver].pc = "post"]
  /\ lastCall' = "nextStepRelease"

\* mutant of nextStepThrow: the label is looked up after the hold is resolved
nextStepThrowLate ==
  /\ Assign([Refs(stepIndexRef) EXCEPT !.holdResolver = NoResolver])
  /\ tasks' = IF holdResolver # NoResolver
                THEN [tasks EXCEPT ![holdResolver].pc = "post"] ELSE tasks
  /\ lastCall' = "nextStepThrow"

\* nextStep(targetLabel) with a label that labels does not hold: the throw
\* comes before any assignment
nextStepThrow ==
  /\ UNCHANGED <<refs, tasks>>
  /\ lastCall' = "nextStepThrow"

\* nextStep(targetLabel) up to its first await or return; "" is no argument
nextStep(targetLabel) ==
  /\ CallEnabled
  /\ IF targetLabel # "" /\ targetLabel \notin DOMAIN labels
       THEN nextStepThrow
       ELSE
         LET base == IF targetLabel # "" THEN labels[targetLabel]
                     ELSE stepIndexRef
         IN IF holdResolver # NoResolver
              THEN nextStepResume(base)
              ELSE nextStepRun(base)
  /\ lastLabel' = targetLabel
  /\ lastOp' = "call"
  /\ calls' = IF calls < MaxCalls THEN calls + 1 ELSE calls
  /\ handler' = TRUE
  /\ UNCHANGED config

\* nextStep after `await runStep(...)`: increment, wrap to 0 past the end
manualPost(t) ==
  /\ tasks[t].kind = "manual" /\ tasks[t].pc = "post"
  /\ ~Busy
  /\ Assign(Refs(manualAdvance(tasks[t].result, stepIndexRef)))
  /\ tasks' = [tasks EXCEPT ![t] = Finished("manual", "done")]
  /\ lastOp' = "task"
  /\ calls' = calls
  /\ handler' = FALSE
  /\ UNCHANGED <<config, lastCall, lastLabel>>

(* --------------------------- specifications --------------------------- *)
InitState(programs, modes, loops, vibrationModes) ==
  /\ scenario \in programs
  /\ blocks = NoBlocks
  /\ compiled = compileScenario(scenario, blocks, TRUE)
  /\ compiled.status = "returned"
  /\ steps = compiled.steps
  /\ labels = compiled.labels
  /\ mode \in modes
  /\ loop \in loops
  /\ vibrationMode \in vibrationModes
  /\ stepIndexRef = 0
  /\ callingStepIndexRef = Undefined
  /\ vibrationTriggered = FALSE
  /\ holdResolver = NoResolver
  /\ shouldStop = FALSE
  /\ currentStepIndex = -1
  /\ animatedRefs = initialValues
  /\ tasks = [t \in TaskIds |-> IdleTask]
  /\ handler = FALSE
  /\ lastOp = "init"
  /\ lastCall = "none"
  /\ lastLabel = ""
  /\ lastGoto = -1
  /\ prevGoto = -1
  /\ hapticFired = FALSE
  /\ calls = 0

TaskStep ==
  \E t \in TaskIds :
    \/ autoHead(t)
    \/ complete(t)
    \/ autoPost(t)
    \/ autoRestart(t)
    \/ manualPost(t)

\* one interpreter instance under every interleaving of the control calls
Init == InitState(CtlPrograms, {"auto"}, BOOLEAN, {"once"})
Next ==
  \/ calls < MaxCalls /\ start
  \/ calls < MaxCalls /\ Stop
  \/ calls < MaxCalls /\ Reset
  \/ calls < MaxCalls /\ \E l \in {""} \cup LabelNames : nextStep(l)
  \/ TaskStep
Spec == Init /\ [][Next]_vars

\* an auto-mode run left alone: start() once, then no control call
AutoStep ==
  \E t \in TaskIds :
    \/ autoHead(t)
    \/ complete(t)
    \/ autoPost(t)
    \/ autoRestart(t)
InitAuto == InitState(IfPrograms \cup JumpPrograms, {"auto"}, BOOLEAN, {"once"})
NextAuto ==
  \/ lastCall = "none" /\ start
  \/ AutoStep
SpecAuto == InitAuto /\ [][NextAuto]_vars

\* one auto-mode run: start() once, then at most one stop(); every pending
\* continuation and completion eventually runs
InitRun ==
  InitState(RunPrograms \cup {loopScenario}, {"auto"}, BOOLEAN,
            {"once", "always"})
NextRun ==
  \/ lastCall = "none" /\ start
  \/ lastCall = "start" /\ Stop
  \/ AutoStep
SpecRun == InitRun /\ [][NextRun]_vars /\ WF_vars(AutoStep)

\* an auto-mode run left alone, over the two-goto programs
InitSlot == InitState(SlotPrograms, {"auto"}, BOOLEAN, {"once"})
SpecSlot == InitSlot /\ [][NextAuto]_vars

\* manual mode, the nextStep() calls issued one at a time
ManualStep ==
  \E t \in TaskIds :
    \/ complete(t)
    \/ manualPost(t)
InitManual == InitState(IfPrograms \cup JumpPrograms, {"manual"}, {FALSE}, {"once"})
NextManual ==
  \/ (\A t \in TaskIds : FreeTask(t)) /\ nextStep("")
  \/ start
  \/ ManualStep
SpecManual == InitManual /\ [][NextManual]_vars

\* manual mode, a nextStep() call issued whenever a handler may run, the
\* step of an earlier call still in flight or not
NextOverlap ==
  \/ calls < MaxCalls /\ nextStep("")
  \/ ManualStep
SpecOverlap == InitManual /\ [][NextOverlap]_vars

\* an auto-mode run that suspends on holds, each released by a nextStep()
\* or nextStep(label) call made while it is pending
InitHold == InitState(HoldPrograms, {"auto"}, BOOLEAN, {"once"})
NextHold ==
  \/ lastCall = "none" /\ start
  \/ holdResolver # NoResolver /\ \E l \in {""} \cup LabelNames : nextStep(l)
  \/ AutoStep
SpecHold == InitHold /\ [][NextHold]_vars

\* an auto-mode run left alone, over the programs with computed values
InitDriver == InitState(DriverPrograms, {"auto"}, BOOLEAN, {"once"})
NextDriver ==
  \/ lastCall = "none" /\ start
  \/ /\ \A x \in DOMAIN animatedRefs :
          animatedRefs[x] \in -MaxValue .. MaxValue
     /\ AutoStep
SpecDriver == InitDriver /\ [][NextDriver]_vars

\* one instance, in manual or auto mode, whose program has stop steps, under
\* every interleaving of the control calls
InitStopped == InitState(StopPrograms, {"auto", "manual"}, BOOLEAN, {"once"})
SpecStopped == InitStopped /\ [][Next]_vars

\* an auto-mode run disturbed once: start(), then one stop() or reset(), then
\* after a stop() one more start() while a step of the first run is in flight
NextRestart ==
  \/ lastCall = "none" /\ start
  \/ lastCall = "start" /\ Stop
  \/ lastCall = "start" /\ Reset
  \/ /\ lastCall = "stop"
     /\ \E t \in TaskIds : tasks[t].pc = "inflight" /\ ~tasks[t].micro
     /\ start
  \/ AutoStep
InitRestart == InitState(RestartPrograms, {"auto"}, BOOLEAN, {"once"})
SpecRestart == InitRestart /\ [][NextRestart]_vars

\* programs with a failing step, run by start() or by nextStep() calls issued
\* one at a time
InitFail == InitState(FailPrograms, {"auto", "manual"}, BOOLEAN, {"once"})
NextFail ==
  \/ lastCall = "none" /\ start
  \/ (\A t \in TaskIds : FreeTask(t)) /\ calls < MaxCalls /\ nextStep("")
  \/ TaskStep
SpecFail == InitFail /\ [][NextFail]_vars

\* compileScenario called once, in raising or non-raising mode, on a
\* scenario and a block registry
compile(throughErrors) ==
  /\ compiled.status = "none"
  /\ compiled' = compileScenario(scenario, blocks, throughErrors)
  /\ steps' = compiled'.steps
  /\ labels' = compiled'.labels
  /\ UNCHANGED <<scenario, blocks, mode, loop, vibrationMode, refs, tasks,
                 handler, lastOp, lastCall, lastLabel, calls>>
\* the hook before any call: nothing runs, the refs as constructed
InitIdle ==
  /\ mode = "auto"
  /\ loop = FALSE
  /\ vibrationMode = "once"
  /\ stepIndexRef = 0
  /\ callingStepIndexRef = Undefined
  /\ vibrationTriggered = FALSE
  /\ holdResolver = NoResolver
  /\ shouldStop = FALSE
  /\ currentStepIndex = -1
  /\ animatedRefs = initialValues
  /\ tasks = [t \in TaskIds |-> IdleTask]
  /\ handler = FALSE
  /\ lastOp = "init"
  /\ lastCall = "none"
  /\ lastLabel = ""
  /\ lastGoto = -1
  /\ prevGoto = -1
  /\ hapticFired = FALSE
  /\ calls = 0
InitCompileOn(inputs) ==
  /\ \E input \in inputs : scenario = input[1] /\ blocks = input[2]
  /\ compiled = NotCompiled
  /\ steps = <<>>
  /\ labels = NoLabels
  /\ InitIdle
InitCompile == InitCompileOn(Scenarios \X Registries)
NextCompile == \E throughErrors \in BOOLEAN : compile(throughErrors)
SpecCompile == InitCompile /\ [][NextCompile]_vars

\* the compileScenario kept in useAnimationScenario.js called once
compileInHook(throughErrors) ==
  /\ compiled.status = "none"
  /\ compiled' = compileScenarioInHook(scenario, blocks, throughErrors)
  /\ steps' = compiled'.steps
  /\ labels' = compiled'.labels
  /\ lastCall' = "compileInHook"
  /\ UNCHANGED <<scenario, blocks, mode, loop, vibrationMode, refs, tasks,
                 handler, lastOp, lastLabel, calls>>
\* either compileScenario called once on an input that may be malformed
InitValidate ==
  InitCompileOn(RefInputs \cup BalanceInputs \cup MixInputs
                  \cup ValueInputs \cup EntryInputs)
NextValidate ==
  \E throughErrors \in BOOLEAN :
    compile(throughErrors) \/ compileInHook(throughErrors)
SpecValidate == InitValidate /\ [][NextValidate]_vars

\* jumpTo(steps, startIndex, "ifThen", endTypes) called on a step list, as
\* runStep calls it: the index of the step is published, the cursor takes
\* the result
callJumpTo(startIndex, endTypes) ==
  /\ lastCall = "none"
  /\ startIndex \in Indices(steps)
  /\ currentStepIndex' = startIndex
  /\ stepIndexRef' = jumpTo(steps, startIndex, "ifThen", endTypes)
  /\ lastCall' = IF Len(endTypes) = 2 THEN "jumpToElseOrEnd" ELSE "jumpToEnd"
  /\ UNCHANGED <<config, callingStepIndexRef, vibrationTriggered,
                 holdResolver, shouldStop, animatedRefs, lastGoto, prevGoto,
                 hapticFired, tasks, handler, lastOp, lastLabel, calls>>
InitJumpTo ==
  /\ scenario \in JumpToLists
  /\ blocks = NoBlocks
  /\ compiled = NotCompiled
  /\ steps = scenario
  /\ labels = NoLabels
  /\ InitIdle
NextJumpTo ==
  \E startIndex \in 0 .. (MaxListLen - 1) :
    \E endTypes \in {<<"ifElse", "ifEnd">>, <<"ifEnd">>} :
      callJumpTo(startIndex, endTypes)
SpecJumpTo == InitJumpTo /\ [][NextJumpTo]_vars

(* ============================== claims ================================ *)
TypeAt(i) == IF i \in Indices(steps) THEN StepAt(steps, i).type ELSE "none"

\* the auto task t leaves the while test by starting a step / by returning
Begins(t) ==
  /\ tasks[t].kind = "auto" /\ tasks[t].pc = "head"
  /\ tasks'[t].pc \in {"inflight", "post", "held", "failed"}
Ends(t) ==
  /\ tasks[t].kind = "auto" /\ tasks[t].pc = "head"
  /\ tasks'[t].pc \in {"restart", "done"}
\* the index of the step the run executes next (the program length: none)
NextIndex(t) == IF Begins(t) THEN tasks'[t].index ELSE Len(steps)

\* bracket structure of a balanced program, by counting: a position j closes
\* the block opened at i when as many ifThen as ifEnd lie strictly between
CountBetween(i, j, type) ==
  Cardinality({k \in Indices(steps) : i < k /\ k < j /\ TypeAt(k) = type})
Level(i, j) == CountBetween(i, j, "ifThen") = CountBetween(i, j, "ifEnd")
\* the ifEnd of the block that the ifThen or ifElse at i belongs to
EndOf(i) ==
  LET c == {j \in Indices(steps) : j > i /\ TypeAt(j) = "ifEnd" /\ Level(i, j)}
  IN IF c = {} THEN -1 ELSE CHOOSE j \in c : \A m \in c : j <= m
\* the ifElse of the block opened by the ifThen at i (-1: none)
ElseOf(i) ==
  LET c == {j \in Indices(steps) :
              j > i /\ j < EndOf(i) /\ TypeAt(j) = "ifElse" /\ Level(i, j)}
  IN IF c = {} THEN -1 ELSE CHOOSE j \in c : TRUE
\* the ifThen of the block whose ifElse is at j
ThenOf(j) ==
  CHOOSE i \in Indices(steps) : TypeAt(i) = "ifThen" /\ ElseOf(i) = j

\* C1 (as claimed): in an auto-mode run, the step executed right after a
\* resume that consumed the return address stored by the goto at index g is
\* the step at g + 1 (the goto itself is not executed again).
C1_ResumeContinuesAfterGoto ==
  [][\A t \in TaskIds :
       (Begins(t) /\ TypeAt(tasks[t].cur.idx) = "resume"
                  /\ tasks[t].cur.ret # Undefined)
         => tasks'[t].index = tasks[t].cur.g + 1]_vars

\* C2: in an auto-mode run of a validated program, after an ifThen whose
\* condition is false the run continues just after the matching ifElse (just
\* after the matching ifEnd when there is none), after an ifThen whose
\* condition is true it continues with the next step, an ifElse is only ever
\* reached from inside its then-branch, and after an ifElse the run continues
\* just after the matching ifEnd; nested blocks included.
C2_IfThenElseBranches ==
  [][\A t \in TaskIds :
       (Begins(t) \/ Ends(t)) =>
         LET c == tasks[t].cur
             nxt == NextIndex(t)
         IN /\ (TypeAt(c.idx) = "ifThen" /\ c.cond = "false") =>
                 nxt = IF ElseOf(c.idx) # -1 THEN ElseOf(c.idx) + 1
                       ELSE EndOf(c.idx) + 1
            /\ (TypeAt(c.idx) = "ifThen" /\ c.cond = "true") => nxt = c.idx + 1
            /\ TypeAt(c.idx) = "ifElse" => nxt = EndOf(c.idx) + 1
            /\ TypeAt(nxt) = "ifElse" =>
                 /\ ThenOf(nxt) <= c.idx /\ c.idx < nxt
                 /\ c.idx = ThenOf(nxt) => c.cond # "false"]_vars

\* C2 witness: the outer ifThen of a nested block resolved false and the run
\* stands at the first step of its else-branch
C2_Witness ==
  \E t \in TaskIds :
    /\ tasks[t].kind = "auto" /\ tasks[t].pc = "head"
    /\ TypeAt(tasks[t].cur.idx) = "ifThen" /\ tasks[t].cur.cond = "false"
    /\ TypeAt(tasks[t].cur.idx + 1) = "ifThen"
    /\ ElseOf(tasks[t].cur.idx) # -1
    /\ stepIndexRef = ElseOf(tasks[t].cur.idx) + 1

\* C3 (as claimed): in manual mode, when the step run by a nextStep() call
\* signalled "jumped", the call leaves the cursor exactly at the jump target.
C3_ManualJumpKeepsTarget ==
  [][\A t \in TaskIds :
       (/\ tasks[t].kind = "manual" /\ tasks[t].pc = "post"
        /\ tasks'[t].pc = "done"
        /\ tasks[t].result = "jumped")
         => stepIndexRef' = tasks[t].cur.to]_vars

\* C4: in an auto-mode run, the step executed after an ifJump is the one at
\* labels[labelTrue] when the condition resolved true, the one at
\* labels[labelFalse] when it resolved false and labelFalse is present, and
\* the one at i + 1 when it resolved false and labelFalse is absent; the
\* ifJump step never writes the return-address register.
C4_IfJumpTargets ==
  [][\A t \in TaskIds :
       /\ (Begins(t) \/ Ends(t)) =>
            LET c == tasks[t].cur
                s == StepAt(steps, c.idx)
                nxt == NextIndex(t)
            IN TypeAt(c.idx) = "ifJump" =>
                 /\ c.cond = "true" => nxt = labels[s.labelTrue]
                 /\ (c.cond = "false" /\ s.labelFalse # "") =>
                      nxt = labels[s.labelFalse]
                 /\ (c.cond = "false" /\ s.labelFalse = "") => nxt = c.idx + 1
       /\ (/\ TypeAt(tasks'[t].index) = "ifJump"
           /\ tasks[t].pc \in {"head", "inflight"}
           /\ tasks'[t].pc \in {"inflight", "post"}) =>
            callingStepIndexRef' = callingStepIndexRef]_vars

\* C4 witness: an ifJump with both labels resolved false while the register
\* holds a return address, and the run stands at labels[labelFalse]
C4_Witness ==
  \E t \in TaskIds :
    /\ callingStepIndexRef # Undefined
    /\ tasks[t].kind = "auto" /\ tasks[t].pc = "head"
    /\ TypeAt(tasks[t].cur.idx) = "ifJump" /\ tasks[t].cur.cond = "false"
    /\ StepAt(steps, tasks[t].cur.idx).labelFalse # ""
    /\ stepIndexRef = labels[StepAt(steps, tasks[t].cur.idx).labelFalse]
    /\ stepIndexRef # labels[StepAt(steps, tasks[t].cur.idx).labelTrue]

\* the last action was the control call c (lastCall tells how nextStep ended)
JustCalled(c) == lastOp = "call" /\ lastCall = c
NextStepCalls == {"nextStep", "nextStepRelease", "nextStepReturn"}
Restarts(t) == tasks[t].pc = "restart" /\ tasks'[t].pc = "head"

\* C5: an invocation suspended on a hold leaves the hold only through a
\* nextStep() call made while its resolver is the stored one; no completion,
\* stop() or reset() releases it.
C5_HoldReleasedOnlyByNextStep ==
  [][\A t \in TaskIds :
       (tasks[t].pc = "held" /\ tasks'[t].pc # "held")
         => /\ JustCalled("nextStepRelease")'
            /\ holdResolver = t]_vars

\* C5 witness: nextStep() has just released the hold of an auto run
C5_Witness ==
  /\ JustCalled("nextStepRelease")
  /\ \E t \in TaskIds :
       /\ tasks[t].kind = "auto" /\ tasks[t].pc = "post"
       /\ TypeAt(tasks[t].index) = "hold"

\* C6: a nextStep() call (its label, if any, found) made while a hold is
\* pending releases that hold, clears the pending-hold slot and returns
\* without executing a step; no other invocation is touched.
C6_NextStepOnHold ==
  [][(/\ lastOp' = "call" /\ lastCall' \in NextStepCalls
      /\ holdResolver # NoResolver)
       => /\ lastCall' = "nextStepRelease"
          /\ holdResolver' = NoResolver
          /\ tasks[holdResolver].pc = "held"
          /\ tasks' = [tasks EXCEPT ![holdResolver].pc = "post"]
          /\ currentStepIndex' = currentStepIndex]_vars

\* C6 witness: two invocations were suspended on a hold; one has just been
\* released and the other is still suspended
C6_Witness ==
  /\ JustCalled("nextStepRelease")
  /\ holdResolver = NoResolver
  /\ \E t, u \in TaskIds :
       /\ tasks[t].pc = "held"
       /\ tasks[u].pc = "post" /\ TypeAt(tasks[u].index) = "hold"

\* C7: stop() leaves every pending invocation as it is (a step in flight is
\* not aborted), and as long as stop() is the last control call made no run
\* begins a step or restarts.
C7_StopIsCooperative ==
  [][/\ JustCalled("stop")' => tasks' = tasks
     /\ (lastCall = "stop" /\ lastCall' = "stop") =>
          \A t \in TaskIds : ~Begins(t) /\ ~Restarts(t)]_vars

\* C7 witness: a looping run had a move in flight when stop() was called; the
\* move then completed (it wrote its value after the reset) and the run ended
C7_Witness ==
  /\ loop /\ lastCall = "stop" /\ lastOp = "task"
  /\ animatedRefs["x"] = MoveTo
  /\ \E t \in TaskIds : tasks[t] = Finished("auto", "done")
  /\ \A t \in TaskIds : FreeTask(t)

\* the execution state as reset() leaves it, but for the stop flag
ResetState ==
  /\ stepIndexRef = 0
  /\ callingStepIndexRef = Undefined
  /\ vibrationTriggered = FALSE
  /\ holdResolver = NoResolver
  /\ currentStepIndex = -1
  /\ \A k \in DOMAIN initialValues : animatedRefs[k] = initialValues[k]

\* C8: when reset() returns the cursor is 0, the return address is empty, the
\* vibration flag is false, no hold is pending, the stop flag is lowered, the
\* displayed index is -1 and every target holds its initial value; a second
\* reset() right after changes nothing.
C8_ResetState ==
  [][JustCalled("reset")' =>
       /\ ResetState' /\ ~shouldStop'
       /\ JustCalled("reset") => (refs' = refs /\ tasks' = tasks)]_vars

\* C8 witness: reset() has just been called, as the third control call, while
\* an invocation is suspended on a hold past index 0
C8_Witness ==
  /\ JustCalled("reset") /\ calls = 3
  /\ ~shouldStop
  /\ \E t \in TaskIds : tasks[t].pc = "held" /\ tasks[t].index > 0

\* C9: when stop() returns the stop flag is raised and the rest of the
\* execution state is as reset() leaves it.
C9_StopState ==
  [][JustCalled("stop")' => (shouldStop' /\ ResetState')]_vars

\* C9 witness: stop() has just been called while a step past index 0 was in
\* flight
C9_Witness ==
  /\ JustCalled("stop") /\ shouldStop
  /\ \E t \in TaskIds : tasks[t].pc = "inflight" /\ tasks[t].index > 0

\* C10 (as claimed): at most one step of an instance is in flight (started,
\* waiting for its animation or timer) at any time.
C10_OneStepInFlight ==
  Cardinality({t \in TaskIds : tasks[t].pc = "inflight" /\ ~tasks[t].micro}) <= 1

(* ------------------------ execution: C11 - C17 ------------------------ *)
AllFree == \A t \in TaskIds : FreeTask(t)
\* no step of the program redirects the cursor, suspends or stops the run
Straight ==
  \A i \in Indices(steps) :
    TypeAt(i) \notin {"goto", "resume", "ifJump", "ifThen", "ifElse", "hold",
                      "stop"}
\* start() was called and no control call has followed
LeftAlone == lastCall = "start"
\* a run of a loop has just begun: run() is at its while test after a restart
NewRun ==
  /\ lastOp = "task"
  /\ \E t \in TaskIds :
       tasks[t].kind = "auto" /\ tasks[t].pc = "head" /\ tasks[t].cur = NoExec
\* step i has been started by a run and has not returned to the loop yet
Executing(i) ==
  /\ currentStepIndex = i
  /\ \E t \in TaskIds :
       /\ tasks[t].kind = "auto" /\ tasks[t].index = i
       /\ tasks[t].pc \in {"inflight", "post"}

\* C11: an auto-mode run without loop of a program with no goto, resume,
\* ifJump, ifThen, ifElse, hold or stop step, left alone after start():
\* each step begun is the one after the step executed before (0 first), it
\* begins when no other step is pending, the run ends only after step n-1
\* with the cursor at n, and the run does end.
C11_StraightRun ==
  /\ [][(Straight /\ ~loop /\ LeftAlone /\ LeftAlone') =>
          \A t \in TaskIds :
            /\ Begins(t) =>
                 /\ tasks'[t].index = tasks[t].cur.idx + 1
                 /\ \A u \in TaskIds \ {t} : FreeTask(u)
            /\ Ends(t) =>
                 /\ tasks[t].cur.idx = Len(steps) - 1
                 /\ stepIndexRef' = Len(steps)
                 /\ tasks'[t].pc = "done"]_vars
  /\ (Straight /\ ~loop /\ LeftAlone)
       ~> (\/ ~LeftAlone
           \/ /\ AllFree /\ stepIndexRef = Len(steps)
              /\ \E t \in TaskIds : tasks[t] = Finished("auto", "done"))

\* C11 witness: the run of a three-step program has ended, left alone, with
\* the cursor at the program length
C11_Witness ==
  /\ Straight /\ ~loop /\ LeftAlone /\ AllFree
  /\ Len(steps) = 3 /\ stepIndexRef = 3 /\ currentStepIndex = 2
  /\ \E t \in TaskIds : tasks[t] = Finished("auto", "done")

\* C12: with loop enabled, a run that reaches the end of the program with
\* the stop flag lowered is followed by a new run that begins at index 0 with
\* the return address empty and the vibration flag cleared; a run restarts
\* only with the flag lowered, and the flag once raised (by a stop step or by
\* stop()) stays raised; left alone, a program whose steps all complete is
\* restarted again and again, its step 0 executed each time.
C12_LoopRestarts ==
  /\ [][/\ shouldStop => shouldStop'
        /\ \A t \in TaskIds :
             /\ (loop /\ Ends(t)) => tasks'[t].pc = "restart"
             /\ (tasks[t].pc = "restart" /\ tasks'[t] # tasks[t]) =>
                  IF shouldStop
                    THEN tasks'[t].pc = "done"
                    ELSE /\ Restarts(t)
                         /\ stepIndexRef' = 0
                         /\ callingStepIndexRef' = Undefined
                         /\ ~vibrationTriggered'
             /\ Restarts(t) => (loop /\ ~shouldStop)]_vars
  /\ (loop /\ ~shouldStop /\ \E t \in TaskIds : tasks[t].pc = "restart")
       ~> NewRun
  /\ (loop /\ Straight /\ LeftAlone) ~> (NewRun \/ ~LeftAlone)
  /\ (loop /\ Straight /\ LeftAlone) ~> (Executing(0) \/ ~LeftAlone)

\* C12 witness: a looping run has restarted after executing a vibrate step
\* and a goto: the vibration flag and the return address are cleared
C12_Witness ==
  /\ loop /\ NewRun /\ LeftAlone
  /\ stepIndexRef = 0 /\ ~vibrationTriggered
  /\ callingStepIndexRef = Undefined /\ lastGoto # -1
  /\ \E i \in Indices(steps) : TypeAt(i) = "vibrate"

\* C13: [label("start"), move, goto("start")] compiles with labels.start = 0
\* and steps[2] = goto "start"; in an auto-mode run without loop the cursor
\* is 0 after every execution of the goto and never reaches the program
\* length, and as long as the run is left alone index 0 is executed again
\* and again.
C13_GotoCycle ==
  /\ [](scenario = loopScenario =>
          /\ compiled.status = "returned"
          /\ labels = [n \in {"start"} |-> 0]
          /\ StepAt(steps, 2) = goto("start")
          /\ stepIndexRef < Len(steps))
  /\ [][(scenario = loopScenario) =>
          \A t \in TaskIds :
            /\ (Begins(t) /\ tasks'[t].index = 2) => stepIndexRef' = 0
            /\ ~loop => ~Ends(t) \/ shouldStop]_vars
  /\ (scenario = loopScenario /\ ~loop /\ LeftAlone)
       ~> (Executing(0) \/ ~LeftAlone)

\* C13 witness: the goto of the scenario has just executed after the move
\* completed, and the cursor is 0
C13_Witness ==
  /\ scenario = loopScenario /\ ~loop /\ LeftAlone
  /\ Executing(2) /\ stepIndexRef = 0
  /\ animatedRefs["x"] = MoveTo

\* C15: a vibrate step begun by a run fires the haptic, in mode "once", if
\* and only if no haptic has fired since the run began (each start() and each
\* iteration of a loop begins a run), however the step is reached; in mode
\* "always" it fires every time.
C15_VibrateOncePerRun ==
  [][\A t \in TaskIds :
       (Begins(t) /\ TypeAt(tasks'[t].index) = "vibrate") =>
         LET fires == tasks'[t].pc = "inflight"
         IN /\ vibrationMode = "always" => fires
            /\ vibrationMode = "once" => (fires <=> ~hapticFired)]_vars

\* C15 witness: mode "once", a vibrate step reached again through a goto was
\* begun and returned without firing
C15_Witness ==
  /\ vibrationMode = "once" /\ hapticFired /\ lastOp = "task"
  /\ \E t \in TaskIds :
       /\ tasks[t].kind = "auto" /\ tasks[t].pc = "post"
       /\ TypeAt(tasks[t].index) = "vibrate"
       /\ lastGoto > tasks[t].index
       /\ tasks[t].cur.idx = tasks[t].index

\* C16 (as claimed): the return address is one slot. When a goto g2 executes
\* while the slot still holds the address of an earlier goto, the resume
\* that follows continues with the step after g2 and empties the slot; a
\* resume that finds the slot empty fails nothing, jumps nowhere, and the run
\* continues with the step after that resume.
C16_SingleSlot ==
  [][\A t \in TaskIds :
       /\ (/\ Begins(t) /\ TypeAt(tasks'[t].index) = "resume"
           /\ callingStepIndexRef # Undefined) =>
            callingStepIndexRef' = Undefined
       /\ (/\ Begins(t) /\ TypeAt(tasks[t].cur.idx) = "resume"
           /\ tasks[t].cur.ret # Undefined /\ prevGoto # -1) =>
            tasks'[t].index = lastGoto + 1
       /\ (/\ Begins(t) /\ TypeAt(tasks'[t].index) = "resume"
           /\ callingStepIndexRef = Undefined) =>
            /\ tasks'[t].pc = "post" /\ tasks'[t].result # "jumped"
            /\ callingStepIndexRef' = Undefined
       /\ (/\ (Begins(t) \/ Ends(t)) /\ TypeAt(tasks[t].cur.idx) = "resume"
           /\ tasks[t].cur.ret = Undefined) =>
            NextIndex(t) = tasks[t].cur.idx + 1]_vars

\* C17 (as claimed): once a run has executed a stop step it executes no
\* further step, and the execution state is reset: the cursor is back at 0
\* and every target holds its initial value.
C17_StopStepResets ==
  [][\A t \in TaskIds :
       (/\ tasks[t].kind = "auto" /\ tasks[t].pc = "post"
        /\ TypeAt(tasks[t].index) = "stop" /\ tasks'[t] # tasks[t]) =>
         /\ tasks'[t].pc \in {"restart", "done"}
         /\ stepIndexRef' = 0
         /\ \A k \in DOMAIN initialValues :
              animatedRefs'[k] = initialValues[k]]_vars
\* the nextStep() invocation t returns
ManualReturns(t) ==
  tasks[t].kind = "manual" /\ tasks[t].pc = "post" /\ tasks'[t].pc = "done"

\* C14: in manual mode start() executes no step and changes no execution
\* state; a nextStep() call made with no hold pending, the stop flag lowered
\* and no earlier call unfinished executes the one step at the cursor, and
\* when the call returns the cursor is inside the program, having wrapped to
\* 0 if it passed the last step.
C14_ManualStepping ==
  [][/\ (mode = "manual" /\ JustCalled("start")') =>
          (refs' = refs /\ tasks' = tasks)
     /\ (/\ lastOp' = "call" /\ lastCall' \in NextStepCalls
         /\ holdResolver = NoResolver /\ ~shouldStop /\ AllFree) =>
          /\ lastCall' = "nextStep"
          /\ currentStepIndex' = stepIndexRef
          /\ \E t \in TaskIds :
               /\ tasks'[t].kind = "manual" /\ tasks'[t].index = stepIndexRef
               /\ tasks'[t].pc \in {"inflight", "post"}
               /\ \A u \in TaskIds \ {t} : tasks'[u] = tasks[u]
     /\ \A t \in TaskIds :
          ManualReturns(t) =>
            /\ stepIndexRef' \in Indices(steps)
            /\ stepIndexRef' =
                 IF stepIndexRef + 1 >= Len(steps) THEN 0 ELSE stepIndexRef + 1
     /\ AllFree' => stepIndexRef' \in Indices(steps)]_vars

\* C14 witness: the nextStep() call that executed the last step (a move) of
\* a program of several steps has returned, and the cursor is 0
C14_Witness ==
  /\ mode = "manual" /\ AllFree /\ lastOp = "task"
  /\ Len(steps) >= 2
  /\ currentStepIndex = Len(steps) - 1
  /\ TypeAt(currentStepIndex) = "move"
  /\ stepIndexRef = 0

(* ------------------------- compile: C18 - C20 ------------------------- *)
\* the full depth-first expansion of every use reference: the non-use steps
\* in order (a missing block has no steps); fuel bounds the nesting and is
\* never exhausted when no block reaches itself
RECURSIVE expansion(_, _, _)
expansion(input, blks, fuel) ==
  IF input = <<>>
    THEN <<>>
    ELSE LET step == Head(input)
             here == IF notAnObject(step) \/ step.type # "use" THEN <<step>>
                     ELSE IF step.block \in DOMAIN blks /\ fuel > 0
                       THEN expansion(blks[step.block], blks, fuel - 1)
                     ELSE <<>>
         IN here \o expansion(Tail(input), blks, fuel)
Expanded == expansion(scenario, blocks, Cardinality(DOMAIN blocks))
\* the k-th step of the expansion is a label step without a name, or with a
\* name an earlier label step of the expansion carries
Rejected(E, k) ==
  /\ E[k].type = "label"
  /\ \/ E[k].label = ""
     \/ \E j \in 1 .. (k - 1) : E[j].type = "label" /\ E[j].label = E[k].label
RECURSIVE acceptedFrom(_, _)
acceptedFrom(E, k) ==
  IF k > Len(E) THEN <<>>
  ELSE (IF Rejected(E, k) THEN <<>> ELSE <<E[k]>>) \o acceptedFrom(E, k + 1)
Untag(step) == [k \in DOMAIN step \ {"sourceBlock"} |-> step[k]]
Returned == compiled.status = "returned"

DuplicatedNames ==
  LET E == Expanded
  IN {E[k].label :
        k \in {i \in DOMAIN E :
                 /\ E[i].type = "label" /\ E[i].label # ""
                 /\ \E j \in 1 .. (i - 1) :
                      E[j].type = "label" /\ E[j].label = E[i].label}}

\* C19: when two label steps of the flattened program carry the same name,
\* at whatever nesting level, compile reports a duplicate-label error for
\* that name, and in raising mode it raises and returns no program.
C19_DuplicateLabels ==
  (compiled.status \in {"returned", "raised"}) =>
    LET names == DuplicatedNames
    IN /\ \A n \in names :
            [kind |-> "duplicateLabel", name |-> n]
              \in Range(compiled.validationErrors)
       /\ (names # {} /\ compiled.throughErrors) =>
            (compiled.status = "raised" /\ compiled.steps = <<>>)

\* C19 witness: raising mode, both label steps come from blocks (one block
\* used twice), and compile raised
C19_Witness ==
  /\ compiled.status = "raised"
  /\ "A" \in DuplicatedNames
  /\ \A k \in DOMAIN scenario : scenario[k].type = "use"
  /\ Len(scenario) = 2 /\ scenario[1] = scenario[2]

\* C20: in every compile result the keys of `labels` are exactly the names
\* of the untagged (top-level) label steps of `steps`, each mapped to the
\* index of that step in `steps`; a label step inlined from a block is in
\* `steps` without its name being a key, and every accepted top-level label
\* of the scenario is a key.
C20_LabelsTable ==
  Returned =>
    /\ DOMAIN compiled.labels =
         {compiled.steps[k].label :
            k \in {i \in DOMAIN compiled.steps :
                     /\ compiled.steps[i].type = "label"
                     /\ ~Tagged(compiled.steps[i])}}
    /\ \A n \in DOMAIN compiled.labels :
         /\ compiled.labels[n] \in Indices(compiled.steps)
         /\ StepAt(compiled.steps, compiled.labels[n]) = label(n)
    /\ \A k \in DOMAIN scenario :
         (/\ scenario[k].type = "label" /\ scenario[k].label # ""
          /\ scenario[k].label \notin DuplicatedNames)
           => scenario[k].label \in DOMAIN compiled.labels
    /\ \A n \in LabelNames :
         (/\ \E k \in DOMAIN Expanded : Expanded[k] = label(n)
          /\ \A k \in DOMAIN scenario : scenario[k] # label(n))
           => /\ n \notin DOMAIN compiled.labels
              /\ \E k \in DOMAIN compiled.steps :
                   /\ Tagged(compiled.steps[k])
                   /\ Untag(compiled.steps[k]) = label(n)

\* C20 witness: a block label that is in steps but not a key, followed by a
\* top-level label whose index counts the inlined steps
C20_Witness ==
  /\ Returned /\ compiled.throughErrors
  /\ "A" \notin DOMAIN compiled.labels
  /\ \E k \in DOMAIN compiled.steps :
       Tagged(compiled.steps[k]) /\ compiled.steps[k].label = "A"
  /\ "B" \in DOMAIN compiled.labels /\ compiled.labels["B"] >= 2

(* ------------------------ validation: C21 - C28 ----------------------- *)
Reported == Range(compiled.validationErrors)
Answered == compiled.status \in {"returned", "raised"}
\* the label names a step jumps to: a goto's label, an ifJump's labelTrue
\* and its labelFalse when present ("" is a name that was not given)
JumpNames(step) ==
  IF notAnObject(step) THEN {}
  ELSE IF step.type = "goto" THEN {step.label}
  ELSE IF step.type = "ifJump"
    THEN {step.labelTrue} \cup ({step.labelFalse} \ {""})
  ELSE {}
\* the names of the label steps written at the top level of the scenario
TopLabels ==
  {scenario[k].label :
     k \in {i \in DOMAIN scenario :
              ~notAnObject(scenario[i]) /\ scenario[i].type = "label"}} \ {""}

\* C21: whenever compile in raising mode returns a program, every goto label
\* and every ifJump labelTrue and (present) labelFalse of that program is a
\* key of labels; a goto or ifJump, at top level or inlined from a block,
\* that names a label defined only inside a block, or no label at all, is
\* reported with a missing-label error and makes raising mode raise.
C21_JumpsResolve ==
  /\ (Returned /\ compiled.throughErrors) =>
       \A k \in DOMAIN compiled.steps :
         JumpNames(compiled.steps[k]) \subseteq DOMAIN compiled.labels
  /\ Answered =>
       LET E == Expanded
       IN \A k \in DOMAIN E : \A n \in JumpNames(E[k]) \ TopLabels :
            /\ [kind |-> "missingLabel", name |-> n] \in Reported
            /\ compiled.throughErrors => compiled.status = "raised"

\* C21 witness: raising mode returned a program whose ifJump names two
\* labels, both keys of labels
C21_Witness ==
  /\ Returned /\ compiled.throughErrors
  /\ \E k \in DOMAIN compiled.steps :
       /\ compiled.steps[k] = ifJump("A", "B")
       /\ {"A", "B"} \subseteq DOMAIN compiled.labels

\* the scenario is its own flattened step list: no use, no label, every
\* entry an object
Plain ==
  \A k \in DOMAIN scenario :
    ~notAnObject(scenario[k]) /\ scenario[k].type \notin {"use", "label"}
KindAt(F, k) == F[k].type
\* bracket matching by rewriting, on the positions of the ifThen and ifEnd
\* steps of the step list F: an ifThen directly followed by an ifEnd is a
\* pair and is taken out, until no such neighbours are left
Neighbours(F, ix) ==
  {k \in 1 .. (Len(ix) - 1) :
     KindAt(F, ix[k]) = "ifThen" /\ KindAt(F, ix[k + 1]) = "ifEnd"}
Without(ix, k) == SubSeq(ix, 1, k - 1) \o SubSeq(ix, k + 2, Len(ix))
RECURSIVE Unpaired(_, _)
Unpaired(F, ix) ==
  IF Neighbours(F, ix) = {} THEN ix
  ELSE Unpaired(F, Without(ix, CHOOSE k \in Neighbours(F, ix) : TRUE))
RECURSIVE Pairs(_, _)
Pairs(F, ix) ==
  IF Neighbours(F, ix) = {} THEN {}
  ELSE LET k == CHOOSE n \in Neighbours(F, ix) : TRUE
       IN {<<ix[k], ix[k + 1]>>} \cup Pairs(F, Without(ix, k))
RECURSIVE PositionsFrom(_, _, _)
PositionsFrom(F, k, kinds) ==
  IF k > Len(F) THEN <<>>
  ELSE (IF KindAt(F, k) \in kinds THEN <<k>> ELSE <<>>)
       \o PositionsFrom(F, k + 1, kinds)
Brackets(F) == PositionsFrom(F, 1, {"ifThen", "ifEnd"})
\* the ifThen that owns the ifElse at position e: the last ifThen before e
\* that is still open at e (0 if none)
OwnerOf(F, e) ==
  LET left == Range(Unpaired(F, Brackets(F)))
      open == {i \in 1 .. (e - 1) :
                 /\ KindAt(F, i) = "ifThen"
                 /\ \/ i \in left
                    \/ \E p \in Pairs(F, Brackets(F)) : p[1] = i /\ p[2] > e}
  IN IF open = {} THEN 0 ELSE CHOOSE i \in open : \A j \in open : j <= i
\* the conditional-block errors the step list F deserves (indices from 0)
ExpectedIfErrors(F) ==
  LET left == Range(Unpaired(F, Brackets(F)))
      elses == {k \in DOMAIN F : KindAt(F, k) = "ifElse"}
  IN {[kind |-> "unclosed", index |-> i - 1] :
        i \in {k \in left : KindAt(F, k) = "ifThen"}}
     \cup {[kind |-> "noMatchingIfThen", index |-> i - 1] :
             i \in {k \in left : KindAt(F, k) = "ifEnd"}
                     \cup {e \in elses : OwnerOf(F, e) = 0}}
     \cup {[kind |-> "elseAlreadyDefined", index |-> e - 1] :
             e \in {k \in elses :
                      /\ OwnerOf(F, k) # 0
                      /\ \E f \in elses :
                           f < k /\ OwnerOf(F, f) = OwnerOf(F, k)}}
\* properly nested, by counting: no prefix closes more than it opens, the
\* whole list closes all it opens, every ifElse lies in an open block and is
\* the only one of its block
Opened(F, k) == Cardinality({i \in 1 .. k : KindAt(F, i) = "ifThen"})
Closed(F, k) == Cardinality({i \in 1 .. k : KindAt(F, i) = "ifEnd"})
ProperlyNested(F) ==
  /\ \A k \in DOMAIN F : Closed(F, k) <= Opened(F, k)
  /\ Closed(F, Len(F)) = Opened(F, Len(F))
  /\ \A e \in DOMAIN F :
       KindAt(F, e) = "ifElse" =>
         /\ Opened(F, e) > Closed(F, e)
         /\ \A f \in 1 .. (e - 1) :
              KindAt(F, f) = "ifElse" => OwnerOf(F, f) # OwnerOf(F, e)
IfKinds == {"unclosed", "noMatchingIfThen", "elseAlreadyDefined"}

\* C22: for every flattened step list, compile reports no conditional-block
\* error if and only if its ifThen / ifElse / ifEnd steps are properly
\* nested with at most one ifElse per ifThen; otherwise it reports exactly:
\* each ifThen left open as unclosed at its index, each ifElse or ifEnd met
\* with no open ifThen as having no matching ifThen, and each further ifElse
\* of an ifThen as already defined.
C22_ConditionalBalance ==
  (Answered /\ Plain) =>
    LET reported == {e \in Reported : e.kind \in IfKinds}
    IN /\ reported = ExpectedIfErrors(scenario)
       /\ (reported = {}) <=> ProperlyNested(scenario)

\* C22 witness: one list reported with the three kinds of error at once
C22_Witness ==
  /\ Answered /\ Plain
  /\ \A kind \in IfKinds : \E e \in Reported : e.kind = kind

\* the value targets a step uses: its target, and the target of every
\* object among the targets of a parallel step
UsedTargets(step) ==
  IF notAnObject(step) THEN {}
  ELSE ({step.target}
        \cup (IF "targets" \in DOMAIN step
                THEN {step.targets[k].target :
                        k \in {i \in DOMAIN step.targets :
                                 ~notAnObject(step.targets[i])}}
                ELSE {})) \ {""}
\* the names of the callback steps among the steps of a list
UsedCallbacks(stps) ==
  {stps[k].name :
     k \in {i \in DOMAIN stps :
              ~notAnObject(stps[i]) /\ stps[i].type = "callback"}}

\* C23: compile reports an error for every value target used by a step of
\* the flattened program (a step's target, or the target of an entry of a
\* parallel step, steps inlined from blocks included) that is not a key of
\* initialValues, and for every callback step whose name is not a key of the
\* callbacks table; a program that compiles in raising mode has none.
C23_TargetsAndCallbacks ==
  /\ Answered =>
       LET E == Expanded
       IN /\ \A k \in DOMAIN E :
               \A t \in UsedTargets(E[k]) \ DOMAIN initialValues :
                 [kind |-> "missingTarget", name |-> t] \in Reported
          /\ \A n \in UsedCallbacks(E) \ callbacks :
               [kind |-> "missingCallback", name |-> n] \in Reported
  /\ (Returned /\ compiled.throughErrors) =>
       /\ \A k \in DOMAIN compiled.steps :
            UsedTargets(compiled.steps[k]) \subseteq DOMAIN initialValues
       /\ UsedCallbacks(compiled.steps) \subseteq callbacks

\* C23 witness: the only missing target is the second entry of a parallel
\* step, and it is reported
C23_Witness ==
  /\ compiled.status = "raised"
  /\ \E k \in DOMAIN scenario : scenario[k] = parallel(<<move, moveY>>)
  /\ \A k \in DOMAIN scenario :
       scenario[k] \in {move, callback("f"), parallel(<<move, moveY>>)}
  /\ Reported = {[kind |-> "missingTarget", name |-> "y"]}

\* the depth-first expansion with, for every step, the block it is written
\* in ("" at top level)
RECURSIVE expansionFrom(_, _, _, _)
expansionFrom(input, blks, fuel, from) ==
  IF input = <<>>
    THEN <<>>
    ELSE LET step == Head(input)
             here == IF notAnObject(step) \/ step.type # "use"
                       THEN <<[step |-> step, from |-> from]>>
                     ELSE IF step.block \in DOMAIN blks /\ fuel > 0
                       THEN expansionFrom(blks[step.block], blks, fuel - 1,
                                          step.block)
                     ELSE <<>>
         IN here \o expansionFrom(Tail(input), blks, fuel, from)
Written == expansionFrom(scenario, blocks, Cardinality(DOMAIN blocks), "")
\* the names of absent blocks that the scenario, or a block it reaches, uses
RECURSIVE absentUses(_, _, _)
absentUses(input, blks, fuel) ==
  UNION {IF notAnObject(input[k]) \/ input[k].type # "use" THEN {}
         ELSE IF input[k].block \notin DOMAIN blks THEN {input[k].block}
         ELSE IF fuel > 0
           THEN absentUses(blks[input[k].block], blks, fuel - 1)
         ELSE {} : k \in DOMAIN input}
\* the k-th written step is a label step compile turns away
Refused(W, k) ==
  /\ ~notAnObject(W[k].step) /\ W[k].step.type = "label"
  /\ \/ W[k].step.label = ""
     \/ \E j \in 1 .. (k - 1) :
          /\ ~notAnObject(W[j].step) /\ W[j].step.type = "label"
          /\ W[j].step.label = W[k].step.label
\* the written steps compile keeps, in order
RECURSIVE keptFrom(_, _)
keptFrom(W, k) ==
  IF k > Len(W) THEN <<>>
  ELSE (IF notAnObject(W[k].step) \/ Refused(W, k) THEN <<>> ELSE <<W[k]>>)
       \o keptFrom(W, k + 1)
\* the errors the scenario deserves, part by part
ExpectedFlattenErrors(W) ==
  {[kind |-> "blockNotFound", name |-> n] :
     n \in absentUses(scenario, blocks, Cardinality(DOMAIN blocks))}
  \cup {[kind |-> "invalidStep", name |-> W[k].step.js] :
          k \in {i \in DOMAIN W : notAnObject(W[i].step)}}
  \cup {[kind |-> "labelName", name |-> ""] :
          k \in {i \in DOMAIN W : Refused(W, i) /\ W[i].step.label = ""}}
  \cup {[kind |-> "duplicateLabel", name |-> W[k].step.label] :
          k \in {i \in DOMAIN W : Refused(W, i) /\ W[i].step.label # ""}}
  \cup {[kind |-> "ifJumpLabelTrue", name |-> ""] :
          k \in {i \in DOMAIN W :
                   /\ ~notAnObject(W[i].step) /\ W[i].step.type = "ifJump"
                   /\ W[i].step.labelTrue = ""}}
\* a parallel step with an entry that names no target
Targetless(step) ==
  /\ "targets" \in DOMAIN step
  /\ \E k \in DOMAIN step.targets :
       notAnObject(step.targets[k]) \/ step.targets[k].target = ""
ExpectedRefErrors(K) ==
  {[kind |-> "missingTarget", name |-> t] :
     t \in UNION {UsedTargets(K[k].step) : k \in DOMAIN K}
            \ DOMAIN initialValues}
  \cup {[kind |-> "missingTarget", name |-> ""] :
          k \in {i \in DOMAIN K : Targetless(K[i].step)}}
  \cup {[kind |-> "missingCallback", name |-> n] :
          n \in UsedCallbacks([k \in DOMAIN K |-> K[k].step]) \ callbacks}
ExpectedLabelErrors(K) ==
  LET keys == {K[k].step.label :
                 k \in {i \in DOMAIN K :
                          K[i].step.type = "label" /\ K[i].from = ""}}
  IN {[kind |-> "missingLabel", name |-> n] :
        n \in UNION {JumpNames(K[k].step) : k \in DOMAIN K} \ keys}
ParallelKinds == {"parallelTargets", "parallelMove", "parallelTarget"}

\* C24: compile never stops at the first error: whenever it answers, the
\* errors reported are the union of the flatten-time, reference,
\* label-reference and conditional-balance errors of the whole scenario; a
\* use of a missing block is reported as block not found and skipped while
\* the steps after it are still flattened and validated; in raising mode
\* one failure carries them all.
C24_ErrorsCollected ==
  Answered =>
    LET W == Written
        K == keptFrom(W, 1)
        expected == ExpectedFlattenErrors(W) \cup ExpectedRefErrors(K)
                      \cup ExpectedLabelErrors(K)
                      \cup ExpectedIfErrors([k \in DOMAIN K |-> K[k].step])
    IN /\ {e \in Reported : e.kind \notin ParallelKinds} = expected
       /\ (expected # {} /\ compiled.throughErrors) =>
            compiled.status = "raised"

\* C24 witness: a use of a missing block first, then one error of each of
\* the other parts, all carried by the failure raised
C24_Witness ==
  /\ compiled.status = "raised"
  /\ scenario = <<use("Q"), moveY, goto("A"), ifThen>>
  /\ Reported = {[kind |-> "blockNotFound", name |-> "Q"],
                 [kind |-> "missingTarget", name |-> "y"],
                 [kind |-> "missingLabel", name |-> "A"],
                 [kind |-> "unclosed", index |-> 2]}

\* C25 (as claimed): in non-raising mode compile never raises: whatever the
\* entries of the scenario and of the blocks, it returns the steps, the
\* labels table and the list of errors.
C25_NonRaisingReturns ==
  (compiled.status # "none" /\ ~compiled.throughErrors) =>
    compiled.status = "returned"

\* C26 (as claimed): the errors are de-duplicated in both modes: neither the
\* failure raised nor the list returned in non-raising mode holds a message
\* twice.
C26_ErrorsDeduplicated ==
  Answered =>
    \A i, j \in DOMAIN compiled.validationErrors :
      i # j => compiled.validationErrors[i] # compiled.validationErrors[j]

\* a parallel step whose targets is not a non-empty sequence of move-shaped
\* entries with a target
IllFormedParallel(step) ==
  /\ ~notAnObject(step) /\ step.type = "parallel"
  /\ \/ "targets" \notin DOMAIN step
     \/ step.targets = <<>>
     \/ \E k \in DOMAIN step.targets :
          \/ notAnObject(step.targets[k])
          \/ step.targets[k].type # "move"
          \/ step.targets[k].target = ""

\* C27 (as claimed): compile reports an error for every parallel step whose
\* targets is missing, empty, or holds an entry that is not a move or has
\* no target: whenever it answers on a scenario with such a step an error is
\* reported, and raising mode raises.
C27_ParallelRejected ==
  Answered =>
    LET W == Written
    IN (\E k \in DOMAIN W : IllFormedParallel(W[k].step)) =>
         /\ Reported # {}
         /\ compiled.throughErrors => compiled.status = "raised"

\* C28: no use step is ever among the compiled steps (a found block is
\* replaced by its steps, a missing block is dropped); the steps are, in the
\* depth-first order of the scenario, the steps compile keeps, each step
\* inlined from a block tagged with the block it is written in (the
\* innermost one for nested uses), each top-level step untagged.
C28_BlocksInlined ==
  Returned =>
    LET K == keptFrom(Written, 1)
    IN /\ \A k \in DOMAIN compiled.steps : compiled.steps[k].type # "use"
       /\ Len(compiled.steps) = Len(K)
       /\ \A k \in DOMAIN K :
            /\ Untag(compiled.steps[k]) = K[k].step
            /\ Tagged(compiled.steps[k]) <=> K[k].from # ""
            /\ Tagged(compiled.steps[k]) =>
                 compiled.steps[k].sourceBlock = K[k].from

\* C28 witness: a block used from another block, and steps of three origins
\* in the result
C28_Witness ==
  /\ Returned
  /\ \E k \in DOMAIN scenario : scenario[k] = use("P")
  /\ \E k \in DOMAIN blocks["P"] : blocks["P"][k] = use("Q")
  /\ "Q" \in DOMAIN blocks
  /\ \E i, j, k \in DOMAIN compiled.steps :
       /\ ~Tagged(compiled.steps[i])
       /\ Tagged(compiled.steps[j]) /\ compiled.steps[j].sourceBlock = "P"
       /\ Tagged(compiled.steps[k]) /\ compiled.steps[k].sourceBlock = "Q"

(* --------------------------- jumpTo: C29 ------------------------------ *)
\* C29: for every step list and every start index i, jumpTo with opening
\* type ifThen returns 1 + the index of the first closing step after i (an
\* ifElse or ifEnd, or an ifEnd only) with as many ifThen as ifEnd between i
\* and it, and the length of the list when there is none; the result is
\* greater than i and at most the length; on a balanced list, from an
\* ifThen it is just past the ifElse of that ifThen (or its ifEnd when it
\* has none), and with ifEnd only, from an ifThen or ifElse, just past the
\* ifEnd of that block.
C29_JumpTo ==
  (lastCall \in {"jumpToElseOrEnd", "jumpToEnd"}) =>
    LET i == currentStepIndex
        r == stepIndexRef
        closing == IF lastCall = "jumpToEnd" THEN {"ifEnd"}
                   ELSE {"ifElse", "ifEnd"}
        c == {j \in Indices(steps) :
                j > i /\ TypeAt(j) \in closing /\ Level(i, j)}
        opening == IF TypeAt(i) = "ifElse" THEN OwnerOf(steps, i + 1)
                   ELSE i + 1
        end == CHOOSE j \in DOMAIN steps :
                 <<opening, j>> \in Pairs(steps, Brackets(steps))
        own == {e \in DOMAIN steps :
                  KindAt(steps, e) = "ifElse" /\ OwnerOf(steps, e) = i + 1}
    IN /\ r = IF c = {} THEN Len(steps)
              ELSE 1 + CHOOSE j \in c : \A m \in c : j <= m
       /\ r > i /\ r <= Len(steps)
       /\ (ProperlyNested(steps) /\ TypeAt(i) = "ifThen"
             /\ lastCall = "jumpToElseOrEnd") =>
            r = IF own = {} THEN end ELSE CHOOSE e \in own : TRUE
       /\ (ProperlyNested(steps) /\ TypeAt(i) \in {"ifThen", "ifElse"}
             /\ lastCall = "jumpToEnd") =>
            r = end

\* C29 witness: an inner block with its own ifElse is passed over, the
\* result is just past the ifEnd of the outer block
C29_Witness ==
  /\ lastCall = "jumpToElseOrEnd"
  /\ steps = <<ifThen, ifThen, ifElse, ifEnd, ifEnd>>
  /\ currentStepIndex = 0 /\ stepIndexRef = 5


(* ------------------------- conditions: C30 ---------------------------- *)
\* where an auto-mode run continues after skipping the then-branch of the
\* ifThen at i: just after its ifElse, or just after its ifEnd without one
PastThen(i) == IF ElseOf(i) # -1 THEN ElseOf(i) + 1 ELSE EndOf(i) + 1

\* C30 (as claimed): in an auto-mode run every condition result that is not
\* truthy counts as false, the undefined result included: the step executed
\* after such an ifJump is the one at labels[labelFalse] when labelFalse is
\* present, and after such an ifThen the run continues past the then-branch.
C30_NotTruthyIsFalse ==
  [][\A t \in TaskIds :
       (Begins(t) \/ Ends(t)) =>
         LET c == tasks[t].cur
             s == StepAt(steps, c.idx)
             nxt == NextIndex(t)
         IN /\ (TypeAt(c.idx) = "ifJump" /\ ~truthy(c.cond)
                  /\ s.labelFalse # "") => nxt = labels[s.labelFalse]
            /\ (TypeAt(c.idx) = "ifThen" /\ ~truthy(c.cond)) =>
                 nxt = PastThen(c.idx)]_vars

\* C30 (amended): in an auto-mode run a defined condition result is coerced
\* to a boolean: a truthy one (true, 1) sends ifJump to labels[labelTrue] and
\* ifThen into its then-branch; a defined one that is not truthy (false,
\* null) sends ifJump to labels[labelFalse] when labelFalse is present, to
\* the next step otherwise, and ifThen past its then-branch. An undefined
\* result takes neither jump: after the ifJump the run continues with the
\* next step even when labelFalse is present, and the ifThen enters its
\* then-branch.
C30_DefinedResultsCoerced ==
  [][\A t \in TaskIds :
       (Begins(t) \/ Ends(t)) =>
         LET c == tasks[t].cur
             s == StepAt(steps, c.idx)
             nxt == NextIndex(t)
             defined == c.cond # "undef"
         IN /\ TypeAt(c.idx) = "ifJump" =>
                 /\ (defined /\ truthy(c.cond)) => nxt = labels[s.labelTrue]
                 /\ (defined /\ ~truthy(c.cond) /\ s.labelFalse # "") =>
                      nxt = labels[s.labelFalse]
                 /\ (defined /\ ~truthy(c.cond) /\ s.labelFalse = "") =>
                      nxt = c.idx + 1
                 /\ ~defined => nxt = c.idx + 1
            /\ TypeAt(c.idx) = "ifThen" =>
                 /\ (defined /\ truthy(c.cond)) => nxt = c.idx + 1
                 /\ (defined /\ ~truthy(c.cond)) => nxt = PastThen(c.idx)
                 /\ ~defined => nxt = c.idx + 1]_vars

\* C30 witness: the condition of an ifJump carrying a labelFalse resolved to
\* undefined and the run stands at the step after the ifJump, which is not
\* the one labelFalse names
C30_Witness ==
  \E t \in TaskIds :
    /\ tasks[t].kind = "auto" /\ tasks[t].pc = "head"
    /\ TypeAt(tasks[t].cur.idx) = "ifJump" /\ tasks[t].cur.cond = "undef"
    /\ StepAt(steps, tasks[t].cur.idx).labelFalse # ""
    /\ stepIndexRef = tasks[t].cur.idx + 1
    /\ stepIndexRef # labels[StepAt(steps, tasks[t].cur.idx).labelFalse]


(* ----------------------- control calls: C31 - C40 --------------------- *)
\* C31: a nextStep(label) call whose label is not in the labels table throws
\* and leaves the execution state as it was: the cursor, the return address,
\* the stop flag, the values, the displayed index and the pending-hold slot
\* are unchanged, no invocation begins or moves (no step is executed), and an
\* invocation suspended on a hold stays suspended.
C31_UnknownLabelChangesNothing ==
  [][(lastOp' = "call" /\ lastCall' = "nextStepThrow") =>
       /\ refs' = refs
       /\ tasks' = tasks
       /\ \A t \in TaskIds : tasks[t].pc = "held" => tasks'[t].pc = "held"]_vars

\* C31 witness: nextStep(label) has just thrown while a run is suspended on a
\* hold past index 0, the hold still pending
C31_Witness ==
  /\ JustCalled("nextStepThrow")
  /\ holdResolver # NoResolver
  /\ tasks[holdResolver].pc = "held" /\ tasks[holdResolver].index > 0
  /\ stepIndexRef = tasks[holdResolver].index


\* C32: a nextStep(L) call with L in the labels table made while a hold is
\* pending sets the cursor to labels[L] and releases the suspended run, and
\* the first step that run then executes is the one at labels[L] or the one
\* right after it (the run ends when there is none): no step between the
\* hold and L is executed.
C32_HoldRedirected ==
  [][/\ (/\ lastOp' = "call" /\ lastCall' = "nextStepRelease"
         /\ lastLabel' # "") =>
          /\ stepIndexRef' = labels[lastLabel']
          /\ tasks[holdResolver].pc = "held"
          /\ tasks'[holdResolver].pc = "post"
     /\ \A t \in TaskIds :
          (/\ Begins(t) \/ Ends(t)
           /\ TypeAt(tasks[t].cur.idx) = "hold"
           /\ lastCall = "nextStepRelease"
           /\ lastLabel # "") =>
            NextIndex(t) \in {labels[lastLabel], labels[lastLabel] + 1}]_vars

\* C32 witness: nextStep(L) released a run suspended on a hold, L labelling a
\* step at least two further on, and the run stands at the step after the label
C32_Witness ==
  \E t \in TaskIds :
    /\ tasks[t].kind = "auto" /\ tasks[t].pc = "head"
    /\ TypeAt(tasks[t].cur.idx) = "hold"
    /\ lastCall = "nextStepRelease" /\ lastLabel # ""
    /\ labels[lastLabel] > tasks[t].cur.idx + 1
    /\ stepIndexRef = labels[lastLabel] + 1
    /\ stepIndexRef < Len(steps)


\* the step task t has in flight is a set whose target has no value
SetFails(t) ==
  /\ tasks[t].pc = "inflight"
  /\ TypeAt(tasks[t].index) = "set"
  /\ StepAt(steps, tasks[t].index).target \notin DOMAIN animatedRefs

\* C33: a step that fails at run time (here a set on a target absent from the
\* value map) ends its invocation with the error: the failing step writes no
\* value and leaves the cursor on itself, the invocation executes no further
\* step (a looping run does not restart; its slot only moves again when a new
\* call takes it), in manual mode as in auto mode.
C33_FatalErrorAborts ==
  [][\A t \in TaskIds :
       /\ (SetFails(t) /\ tasks'[t] # tasks[t]) => tasks'[t].pc = "failed"
       /\ (tasks[t].pc # "failed" /\ tasks'[t].pc = "failed") =>
            /\ tasks'[t] = Finished(tasks[t].kind, "failed")
            /\ stepIndexRef' = tasks[t].index
            /\ animatedRefs' = animatedRefs
            /\ callingStepIndexRef' = callingStepIndexRef
       /\ tasks[t].pc = "failed" =>
            (tasks'[t] = tasks[t] \/ lastOp' = "call")]_vars

\* C33 witness: a looping auto run has failed on a set without target past
\* index 0 after a move wrote its value; nothing is pending and the cursor is
\* on the failing step
C33_Witness ==
  /\ loop /\ mode = "auto" /\ lastOp = "task"
  /\ \E t \in TaskIds : tasks[t] = Finished("auto", "failed")
  /\ \A t \in TaskIds : FreeTask(t)
  /\ stepIndexRef > 0 /\ currentStepIndex = stepIndexRef
  /\ StepAt(steps, stepIndexRef) = setNoTarget
  /\ animatedRefs["x"] = MoveTo


\* C34 (as claimed): when a parallel step begins, the value handed to
\* Animated.timing for each of its sub-targets is that sub-target's `to`
\* resolved as a move resolves it: a callback name or a function evaluated,
\* inc(v) / dec(v) applied to the live value of the target.
C34_ParallelResolvesTo ==
  [][\A t \in TaskIds :
       (Begins(t) /\ TypeAt(tasks'[t].index) = "parallel") =>
         LET step == StepAt(steps, tasks'[t].index)
             batch == tasks'[t].cur.driven
         IN /\ DOMAIN batch = DOMAIN step.targets
            /\ \A k \in DOMAIN batch :
                 /\ batch[k].target = step.targets[k].target
                 /\ batch[k].toValue =
                      toValue(step.targets[k].to,
                              animatedRefs[step.targets[k].target])]_vars


\* the blocks of the registry that the steps of body use
UsedBlocks(body) ==
  {body[k].block : k \in {j \in DOMAIN body :
                            ~notAnObject(body[j]) /\ body[j].type = "use"}}
    \cap DOMAIN blocks
\* the blocks reached from the set of blocks bs through at most n uses
RECURSIVE ReachedFrom(_, _)
ReachedFrom(bs, n) ==
  IF n = 0 THEN bs
  ELSE ReachedFrom(bs \cup UNION {UsedBlocks(blocks[b]) : b \in bs}, n - 1)
ReachedBlocks(body) ==
  ReachedFrom(UsedBlocks(body), Cardinality(DOMAIN blocks))
\* a block reachable from the scenario uses itself, directly or not
CyclicUse ==
  \E b \in ReachedBlocks(scenario) : b \in ReachedBlocks(blocks[b])

\* C35: once compileScenario has been called, in raising or non-raising
\* mode, the call has ended in the exhaustion of the call stack, with no
\* result, exactly when a block reachable from the scenario uses itself
\* directly or through other blocks; on every other input it ends, with a
\* result, with its validation failure or with a type error.
C35_CyclicBlocksNeverCompile ==
  compiled.status # "none" =>
    /\ CyclicUse <=> compiled.status = "rangeError"
    /\ ~CyclicUse => compiled.status \in {"returned", "raised", "typeError"}
    /\ compiled.status = "rangeError" =>
         compiled.steps = <<>> /\ compiled.validationErrors = <<>>

\* C35 witness: in non-raising mode compileScenario has exhausted the stack
\* on a scenario using block P, which uses Q, which uses P again
C35_Witness ==
  /\ compiled.status = "rangeError" /\ ~compiled.throughErrors
  /\ DOMAIN blocks = {"P", "Q"}
  /\ use("P") \in Range(scenario)
  /\ use("Q") \in Range(blocks["P"]) /\ use("P") \notin Range(blocks["P"])
  /\ blocks["Q"] = <<use("P")>>


\* C36: a nextStep call (its label, if any, found) made while the stop flag
\* is raised and no hold is pending returns without executing a step: no
\* invocation begins, the displayed index and the flag stay, and the cursor
\* stays too unless a label was given, in which case it is set to the label's
\* index. The flag is raised only by stop() or by a stop step and lowered only
\* by reset() or by start() in auto mode; in manual mode it stays raised, and
\* nextStep() inert, until reset() is called.
C36_NextStepRespectsStop ==
  [][/\ (/\ lastOp' = "call" /\ lastCall' \in NextStepCalls
         /\ shouldStop /\ holdResolver = NoResolver) =>
          /\ lastCall' = "nextStepReturn"
          /\ tasks' = tasks
          /\ currentStepIndex' = currentStepIndex
          /\ shouldStop'
          /\ stepIndexRef' = IF lastLabel' # "" THEN labels[lastLabel']
                             ELSE stepIndexRef
     /\ (shouldStop /\ ~shouldStop') =>
          /\ lastOp' = "call"
          /\ lastCall' = "reset" \/ (lastCall' = "start" /\ mode # "manual")
     /\ (~shouldStop /\ shouldStop') =>
          \/ lastOp' = "call" /\ lastCall' = "stop"
          \/ TypeAt(currentStepIndex') = "stop"]_vars

\* C36 witness: in manual mode the third nextStep() call has just returned
\* without running the move that follows the stop step run by the second
C36_Witness ==
  /\ mode = "manual" /\ shouldStop
  /\ JustCalled("nextStepReturn") /\ calls = 3
  /\ TypeAt(currentStepIndex) = "stop"
  /\ stepIndexRef = currentStepIndex + 1
  /\ TypeAt(stepIndexRef) = "move"
  /\ animatedRefs = initialValues


\* the run that start() began first holds slot 1; slot 2 is taken only by a
\* start() made while that run is still pending
SecondRunStarted == lastCall = "start" /\ tasks[2].kind = "auto"

\* C37 (as claimed): once stop() has been called and start() called again
\* while a step of the stopped run was in flight, the stopped run begins no
\* further step and does not restart; only the new run executes steps.
C37_StoppedRunStaysStopped ==
  [][SecondRunStarted => (~Begins(1) /\ ~Restarts(1))]_vars

\* the steps that do not jump and can be in flight
NonJumping == {"move", "delay", "callback", "set", "vibrate"}
\* reset() was called after the last step of task t began, and no step has
\* begun since
ResetSinceStep(t) ==
  /\ lastCall = "reset" /\ currentStepIndex = -1
  /\ tasks[t].cur.idx >= 0
  /\ TypeAt(tasks[t].cur.idx) \in NonJumping

\* C38: when reset() is called, without stop(), after a non-jumping step of
\* an auto run has begun and before the run goes on, the run goes on once the
\* step has completed: the cursor reset to 0 is incremented and the next step
\* the run executes is the one at index 1 (the run ends if there is none);
\* step 0 is not executed.
C38_ResetDoesNotEndRun ==
  [][\A t \in TaskIds :
       ((Begins(t) \/ Ends(t)) /\ ResetSinceStep(t)) =>
         /\ NextIndex(t) = 1
         /\ Len(steps) > 1 => Begins(t)]_vars

\* C38 witness: reset() was called while the move at index 2 was in flight;
\* the move has completed and the run stands at index 1
C38_Witness ==
  \E t \in TaskIds :
    /\ tasks[t].kind = "auto" /\ tasks[t].pc = "head"
    /\ ResetSinceStep(t)
    /\ tasks[t].cur.idx = 2 /\ TypeAt(2) = "move"
    /\ stepIndexRef = 1 /\ ~shouldStop

\* C39: in manual mode, whatever the interleaving of the nextStep() calls,
\* the calls execute the steps they would execute issued one after the
\* other; on a program without jumps, holds or stops that is: the call
\* number k (from 0) executes the step at index k modulo the program length
C39_OverlappingCallsInOrder ==
  [][(Straight /\ JustCalled("nextStep")') =>
       \E t \in TaskIds :
         /\ tasks'[t] # tasks[t]
         /\ tasks'[t].kind = "manual"
         /\ tasks'[t].index = calls % Len(steps)]_vars

\* a run suspended on a hold whose continuation is no longer stored
Discarded(t) == tasks[t].pc = "held" /\ holdResolver # t

\* C40: reset() and stop() called while a hold is pending drop the stored
\* continuation without calling it: the suspended run stays where it is; a
\* run whose continuation is no longer stored never moves again, whatever is
\* called; and a nextStep() call that finds no continuation stored releases
\* nothing
C40_DiscardedHoldNeverReleased ==
  [][/\ (JustCalled("reset")' \/ JustCalled("stop")') =>
          /\ holdResolver' = NoResolver
          /\ \A t \in TaskIds : tasks[t].pc = "held" => tasks'[t] = tasks[t]
     /\ \A t \in TaskIds : Discarded(t) => tasks'[t] = tasks[t]
     /\ (holdResolver = NoResolver /\ lastOp' = "call") =>
          lastCall' # "nextStepRelease"]_vars
\* after a reset() with a hold pending, a nextStep() call has executed a step
\* of its own and the suspended run is still suspended
C40_Witness ==
  /\ JustCalled("nextStep")
  /\ holdResolver = NoResolver
  /\ \E t \in TaskIds : tasks[t].kind = "auto" /\ Discarded(t)

====
